---- MODULE Spec2Model ----
(***************************************************************************)
(* A state-machine model of the packet/flow engine of hev-socks5-tunnel   *)
(* (multi-threaded version): the buffer pool, the SPSC ring, the fixed    *)
(* and adaptive worker pools, the connection pool and the stack lock of   *)
(* the tunnel orchestrator.  Every component has its own next-state       *)
(* relation and specification; the variables of the other components      *)
(* stay unchanged under it.                                                *)
(***************************************************************************)
EXTENDS Integers, Sequences, FiniteSets, TLC

(***************************************************************************)
(* Shared arithmetic: C integer operations, computed as the code computes *)
(* them.                                                                   *)
(***************************************************************************)

\* 2^n
RECURSIVE Pow2(_)
Pow2(n) == IF n = 0 THEN 1 ELSE 2 * Pow2(n - 1)

\* a & b on non-negative integers
RECURSIVE BitAnd(_, _)
BitAnd(a, b) ==
    IF a = 0 \/ b = 0 THEN 0
    ELSE (a % 2) * (b % 2) + 2 * BitAnd(a \div 2, b \div 2)

\* whether bit b of x is set
BitSet(x, b) == (x \div Pow2(b)) % 2 = 1

\* x | (1 << b)
BitOr1(x, b) == IF BitSet(x, b) THEN x ELSE x + Pow2(b)

\* x & ~(1 << b)
BitClear1(x, b) == IF BitSet(x, b) THEN x - Pow2(b) ELSE x

\* __builtin_ffs(x) - 1 for x # 0: the index of the lowest set bit
RECURSIVE FfsBit(_)
FfsBit(x) == IF x % 2 = 1 THEN 0 ELSE 1 + FfsBit(x \div 2)

\* the number of set bits of x
RECURSIVE PopCount(_)
PopCount(x) == IF x = 0 THEN 0 ELSE (x % 2) + PopCount(x \div 2)

\* A size_t value v is kept as an integer; a negative integer v stands for the
\* wrapped value 2^64 + v.  a > b on size_t:
UGt(a, b) == IF (a < 0) = (b < 0) THEN a > b ELSE a < 0

(***************************************************************************)
(* Bounds of the model.                                                    *)
(***************************************************************************)

\* buffer_count M of the buffer pool under test
MPBufferCount == 2
\* the width of a bitmap word (32 in the source), scaled so that a pool of a
\* few buffers spans more than one word
MPWordBits == 1
\* the number of threads that call alloc/free concurrently
MPThreadCount == 2
\* the number of alloc and free calls the threads make on the buffer pool
MPMaxCalls == 5
\* log2 of the ring capacity (RING_BUFFER_SIZE is 4096 = 2^12 in the source)
RBSizeBits == 2
\* the width of size_t in the model, wide enough for every index of the model
SizeTBits == 16
\* K, the number of workers of the fixed pool under test
TPNumThreads == 2
\* MAX_QUEUE_SIZE (10000 in the source), scaled
TPMaxQueueSize == 2
\* the largest processor count and the largest argument hev_thread_pool_new is
\* called with
TCMaxCores == 40
TCMaxArg == 3
\* the number of submit calls made on the fixed pool
TPMaxSubmits == 3

\* the threads that call hev_thread_pool_wait_all
TPWaiterCount == 2
\* the configuration of the adaptive pool under test: max_threads, min_threads
\* (half of max_threads, so that the pool can both grow and shrink),
\* scale_up_threshold, scale_down_threshold
APMaxThreads == 2
APMinThreads == APMaxThreads \div 2
APScaleUpThreshold == 0
APScaleDownThreshold == 0
\* the number of calls made on the adaptive pool: hev_adaptive_pool_submit and
\* hev_adaptive_pool_adjust (adjuster ticks and manual calls) together
APMaxCalls == 3
\* the size handed to hev_connection_pool_new
CPSize == 2
\* the number of threads that use the connection pool
CPCallerCount == 2
\* the number of distinct (server, port) destinations
CPDestCount == 2
\* the number of hev_connection_pool_get calls
CPMaxGets == 1
\* the number of times the clock advances
CPMaxTicks == 3
\* the number of packets the readers take from the TUN device
TNMaxPackets == 3
\* the number of sessions the handlers create
TNMaxSessions == 2
\* max_sessions M of the configuration (hev_config_get_misc_max_session_count)
TNMaxSessionCount == 1
\* the number of threads that enter the stack and make it send packets
IOProducerCount == 1
\* the number of hev_tunnel_io_write calls
IOMaxWrites == 3
\* WRITE_QUEUE_SIZE (4096 in the source), scaled
IOWriteQueueSize == 2
\* WRITE_BATCH_SIZE (16 in the source), scaled
IOWriteBatchSize == 2
\* the number of ticks (half adjustment intervals) the clock of the load scenario runs
ATHorizon == 20

VARIABLES
    mp_free_bitmap,   \* word index -> uint32 word, bit = 1 means free
    mp_allocated,     \* _Atomic size_t allocated
    mp_peak_usage,    \* _Atomic size_t peak_usage
    mp_pc,            \* thread -> position in alloc/free
    mp_loc,           \* thread -> locals of the running call
    mp_held,          \* thread -> pointers the caller holds
    mp_ret,           \* thread -> result of the last finished alloc
    mp_calls,         \* the number of alloc and free calls made so far
    mp_stray,         \* history: thread -> its free call was given a slot that was free
    mp_stayed,        \* history: thread -> the slots free ever since its alloc call began
    mp_fresh,         \* history: no free call has been made on the pool yet
    rb_head,          \* _Atomic size_t head
    rb_tail,          \* _Atomic size_t tail
    rb_cached_head,   \* consumer's copy of head
    rb_cached_tail,   \* producer's copy of tail
    rb_buffer,        \* void *buffer[RING_BUFFER_SIZE]
    rb_ppc,           \* producer's position in hev_ring_buffer_push
    rb_cpc,           \* consumer's position in hev_ring_buffer_pop
    rb_ploc,          \* producer's locals: head, next, data
    rb_cloc,          \* consumer's locals: tail, data
    rb_pres,          \* result of the last finished push
    rb_pushed,        \* history: the values accepted by push, in order
    rb_popped,        \* history: the values returned by successful pops, in order
    tp_shutdown,      \* pool->shutdown
    tp_queue,         \* the list queue_head .. queue_tail of work items
    tp_queue_size,    \* pool->queue_size
    tp_active_threads,\* pool->active_threads
    tp_pc,            \* worker -> position in worker_thread
    tp_item,          \* worker -> the item it dequeued
    tp_dpc,           \* position of hev_thread_pool_destroy
    tp_join_i,        \* the loop index of destroy's join loop
    tp_submits,       \* the number of submit calls made so far
    tp_sres,          \* result of the last submit
    tp_accepted,      \* history: the items submit has accepted
    tp_executed,      \* history: item -> how many times its task ran
    tp_freed,         \* history: the items freed so far
    tp_before,        \* history: the items accepted before destroy began
    tp_pending,       \* history: the queue length when destroy began
    tp_wpc,           \* caller of wait_all -> position in hev_thread_pool_wait_all
    ap_running,       \* _Atomic bool running
    ap_current_threads, \* _Atomic int current_threads
    ap_active_threads,  \* _Atomic int active_threads
    ap_idle_threads,  \* _Atomic int idle_threads
    ap_workers,       \* slot -> [thread, active, should_exit] (AdaptivePoolWorker)
    ap_work_queue,    \* the ring pool->work_queue
    ap_mutex,         \* the worker that holds pool->mutex, or 0
    ap_wpc,           \* worker thread -> position in worker_thread_func
    ap_witem,         \* worker thread -> the work it popped
    ap_apc,           \* caller of adjust -> position in hev_adaptive_pool_adjust
    ap_aloc,          \* caller of adjust -> locals: head, queue_depth, idle, current
    ap_dpc,           \* position of hev_adaptive_pool_destroy
    ap_dloc,          \* locals of destroy: count, i
    ap_joined,        \* the threads pthread_join has returned for
    ap_next_tid,      \* the identity of the next thread pthread_create starts
    ap_submits,       \* the number of submit calls made so far
    ap_adjusts,       \* the number of adjust calls made so far
    ap_executed,      \* history: item -> how many times its task ran
    cp_conns,         \* slot -> [fd, in_use, last_used, use_count] (HevConnection)
    cp_total_requests, \* pool->total_requests
    cp_cache_hits,    \* pool->cache_hits
    cp_cache_misses,  \* pool->cache_misses
    cp_evictions,     \* pool->evictions
    cp_now,           \* the value time(NULL) returns
    cp_open,          \* the descriptors open in the process
    cp_dest,          \* descriptor -> the destination it was connected to, 0 if none
    cp_alive,         \* descriptor -> the peer has not closed the connection
    cp_pc,            \* caller -> position in hev_connection_pool_get
    cp_loc,           \* caller -> locals of get: fd, dest
    cp_held,          \* caller -> the descriptors get returned to it and it still uses
    tn_run,           \* static volatile int run
    tn_io_running,    \* io->running
    tn_lwip_mutex,    \* the thread that holds lwip_mutex, or 0
    tn_callback_mutex, \* the thread that holds io->callback_mutex, or 0
    tn_rpc,           \* reader -> position in reader_thread and the callbacks below it
    tn_kind,          \* reader -> the handler the stack invoked: "tcp", "udp", "dns"
    tn_rsess,         \* reader -> the session its handler created, 0 if none
    tn_tpc,           \* position of timer_thread_func
    tn_mpc,           \* position of hev_socks5_tunnel_run
    tn_spc,           \* position of hev_socks5_tunnel_stop
    tn_session_list,  \* the session registry, head first
    tn_session_count, \* session_count
    tn_tasks,         \* the session tasks the worker pool accepted and has not run
    tn_next_session,  \* the identity of the next session
    tn_packets,       \* the number of packets read so far
    tn_ret,           \* history: the value hev_socks5_tunnel_run returned, once it has
    io_running,       \* io->running
    io_write_queue,   \* the list write_queue_head .. write_queue_tail of packets
    io_write_queue_size, \* io->write_queue_size
    io_write_mutex,   \* the thread that holds io->write_mutex, or 0
    io_lwip_mutex,    \* the thread that holds lwip_mutex, or 0
    io_rpc,           \* reader -> position in reader_thread
    io_wpc,           \* writer -> position in writer_thread
    io_batch,         \* writer -> the packets of batch[] it has not written yet
    io_tun,           \* history: the packets written to tun_fd, in order
    io_ppc,           \* producer -> position of a thread that enters the stack
    io_spc,           \* position of hev_tunnel_io_start / hev_tunnel_io_stop
    io_join_i,        \* the loop index of the join loops of stop
    io_joined,        \* history: the threads stop has joined, in order
    io_writes,        \* the number of hev_tunnel_io_write calls made so far
    io_num_readers,   \* io->num_readers
    io_num_writers,   \* io->num_writers
    io_ref,           \* packet -> its reference count (pbuf->ref)
    io_freed,         \* history: packet -> the pbuf_free calls made for its queue node
    io_ret,           \* history: the values hev_tunnel_io_write returned, call by call
    at_now,           \* load scenario: the time in ticks
    at_queue_depth,   \* load scenario: the number of items in pool->work_queue
    at_current_threads, \* load scenario: pool->current_threads
    at_finish,        \* load scenario: worker -> 0 (no task) or the tick its task ends
    at_submitted,     \* load scenario: the number of tasks submitted
    at_executed,      \* load scenario: the number of tasks that have returned
    at_apc,           \* load scenario: position of the adjuster thread
    at_aloc,          \* load scenario: the locals of hev_adaptive_pool_adjust
    at_next_adjust,   \* load scenario: the tick the adjuster's sleep ends
    tc_cores,         \* pool creation: the processor count the system reports
    tc_arg,           \* pool creation: the argument of hev_thread_pool_new
    tc_num_threads,   \* pool creation: num_threads, then pool->num_threads
    tc_i,             \* pool creation: the loop index i, the threads created so far
    tc_pc,            \* pool creation: position of hev_thread_pool_new
    cp_repeats        \* history: the release calls made with a descriptor the caller does not hold

mpVars == <<mp_free_bitmap, mp_allocated, mp_peak_usage, mp_pc, mp_loc, mp_held, mp_ret,
           mp_calls, mp_stray, mp_stayed, mp_fresh>>

rbVars == <<rb_head, rb_tail, rb_cached_head, rb_cached_tail, rb_buffer, rb_ppc, rb_cpc,
            rb_ploc, rb_cloc, rb_pres, rb_pushed, rb_popped>>

tpVars == <<tp_shutdown, tp_queue, tp_queue_size, tp_active_threads, tp_pc, tp_item, tp_dpc,
            tp_join_i, tp_submits, tp_sres, tp_accepted, tp_executed, tp_freed, tp_before,
            tp_pending, tp_wpc>>

apVars == <<ap_running, ap_current_threads, ap_active_threads, ap_idle_threads, ap_workers,
            ap_work_queue, ap_mutex, ap_wpc, ap_witem, ap_apc, ap_aloc, ap_dpc, ap_dloc,
            ap_joined, ap_next_tid, ap_submits, ap_adjusts, ap_executed>>

cpVars == <<cp_conns, cp_total_requests, cp_cache_hits, cp_cache_misses, cp_evictions,
            cp_now, cp_open, cp_dest, cp_alive, cp_pc, cp_loc, cp_held>>

tnVars == <<tn_run, tn_io_running, tn_lwip_mutex, tn_callback_mutex, tn_rpc, tn_kind,
            tn_rsess, tn_tpc, tn_mpc, tn_spc, tn_session_list, tn_session_count, tn_tasks,
            tn_next_session, tn_packets, tn_ret>>

ioVars == <<io_running, io_write_queue, io_write_queue_size, io_write_mutex, io_lwip_mutex,
            io_rpc, io_wpc, io_batch, io_tun, io_ppc, io_spc, io_join_i, io_joined,
            io_writes, io_ref, io_freed, io_ret, io_num_readers, io_num_writers>>

ioConf == <<io_num_readers, io_num_writers>>

ioAcct == <<io_ref, io_freed, io_ret>>

atVars == <<at_now, at_queue_depth, at_current_threads, at_finish, at_submitted, at_executed,
            at_apc, at_aloc, at_next_adjust>>

tcVars == <<tc_cores, tc_arg, tc_num_threads, tc_i, tc_pc>>

cpMisuse == <<cp_repeats>>

vars == <<mpVars, rbVars, tpVars, apVars, cpVars, tnVars, ioVars, atVars, tcVars, cpMisuse>>

(***************************************************************************)
(* Buffer pool (hev-memory-pool.c)                                         *)
(***************************************************************************)

MPThreads == 1 .. MPThreadCount

\* pool->buffers[i]: the pointer of slot i; aligned_alloc gives distinct pointers
MPBuffers(i) == 100 + i

MPSlots == 0 .. (MPBufferCount - 1)

MPNull == 0

\* size_t bitmap_size = (buffer_count + 31) / 32
MPBitmapSize == (MPBufferCount + (MPWordBits - 1)) \div MPWordBits

\* the initial word i of the bitmap: all ones, the last word masked
MPInitWord(i) ==
    LET full == Pow2(MPWordBits) - 1
        remaining == MPBufferCount - (i * MPWordBits)
    IN  IF i = MPBitmapSize - 1 /\ remaining < MPWordBits
        THEN Pow2(remaining) - 1
        ELSE full

\* whether the bit of slot index is set in the bitmap (the slot is free)
MPSlotFree(index) ==
    BitSet(mp_free_bitmap[index \div MPWordBits], index % MPWordBits)

MPNoLoc == [i |-> 0, bitmap |-> 0, index |-> 0, allocated |-> 0, peak |-> 0]

MPInit ==
    /\ mp_free_bitmap = [i \in 0 .. (MPBitmapSize - 1) |-> MPInitWord(i)]
    /\ mp_allocated = 0
    /\ mp_peak_usage = 0
    /\ mp_pc = [t \in MPThreads |-> "idle"]
    /\ mp_loc = [t \in MPThreads |-> MPNoLoc]
    /\ mp_held = [t \in MPThreads |-> {}]
    /\ mp_ret = [t \in MPThreads |-> MPNull]
    /\ mp_calls = 0
    /\ mp_stray = [t \in MPThreads |-> FALSE]
    /\ mp_stayed = [t \in MPThreads |-> {}]
    /\ mp_fresh = TRUE

\* hev_memory_pool_alloc is entered: i = 0
MPAllocCall(t) ==
    /\ mp_pc[t] = "idle"
    /\ mp_calls < MPMaxCalls
    /\ mp_calls' = mp_calls + 1
    /\ mp_pc' = [mp_pc EXCEPT ![t] = "a_load"]
    /\ mp_loc' = [mp_loc EXCEPT ![t] = MPNoLoc]
    /\ mp_stayed' = [mp_stayed EXCEPT ![t] = {j \in MPSlots : MPSlotFree(j)}]
    /\ UNCHANGED <<mp_free_bitmap, mp_allocated, mp_peak_usage, mp_held, mp_ret, mp_stray,
                   mp_fresh>>

\* bitmap = atomic_load(&free_bitmap[i]) followed by the test of while (bitmap != 0);
\* on 0 the for loop moves to the next word or the function returns NULL
MPAllocLoad(t) ==
    /\ mp_pc[t] = "a_load"
    /\ UNCHANGED <<mp_calls, mp_stray, mp_fresh>>
    /\ LET i == mp_loc[t].i
           bitmap == mp_free_bitmap[i]
       IN  IF bitmap # 0
           THEN /\ mp_loc' = [mp_loc EXCEPT ![t].bitmap = bitmap]
                /\ mp_pc' = [mp_pc EXCEPT ![t] = "a_cas"]
                /\ UNCHANGED <<mp_ret, mp_stayed>>
           ELSE IF i + 1 < MPBitmapSize
           THEN /\ mp_loc' = [mp_loc EXCEPT ![t].i = i + 1, ![t].bitmap = 0]
                /\ UNCHANGED <<mp_pc, mp_ret, mp_stayed>>
           ELSE /\ mp_loc' = [mp_loc EXCEPT ![t] = MPNoLoc]
                /\ mp_pc' = [mp_pc EXCEPT ![t] = "idle"]
                /\ mp_ret' = [mp_ret EXCEPT ![t] = MPNull]
                /\ mp_stayed' = [mp_stayed EXCEPT ![t] = {}]
    /\ UNCHANGED <<mp_free_bitmap, mp_allocated, mp_peak_usage, mp_held>>

\* mutant: the claim of the bit is a plain store that does not compare the word
MPCasBlind(word, expected) == TRUE

\* the outcome of atomic_compare_exchange_weak(&word, &expected, desired):
\* it may succeed only when the word equals expected
MPCasSucceeds(word, expected) == word = expected

\* atomic_compare_exchange_weak on free_bitmap[i]: success claims the bit
MPAllocCasOk(t) ==
    /\ mp_pc[t] = "a_cas"
    /\ UNCHANGED <<mp_calls, mp_stray, mp_fresh>>
    /\ LET i == mp_loc[t].i
           bitmap == mp_loc[t].bitmap
           bit == FfsBit(bitmap)
       IN  /\ MPCasSucceeds(mp_free_bitmap[i], bitmap)
           /\ mp_free_bitmap' = [mp_free_bitmap EXCEPT ![i] = BitClear1(bitmap, bit)]
           /\ mp_loc' = [mp_loc EXCEPT ![t].index = (i * MPWordBits) + bit]
           /\ mp_stayed' = [u \in MPThreads |->
                               IF u = t THEN {} ELSE mp_stayed[u] \ {(i * MPWordBits) + bit}]
    /\ mp_pc' = [mp_pc EXCEPT ![t] = "a_add"]
    /\ UNCHANGED <<mp_allocated, mp_peak_usage, mp_held, mp_ret>>

\* mutant: a failed compare-exchange gives the scan up and the call returns NULL
MPAllocCasFailGivesUp(t) ==
    /\ mp_pc[t] = "a_cas"
    /\ UNCHANGED <<mp_calls, mp_stray, mp_fresh>>
    /\ mp_pc' = [mp_pc EXCEPT ![t] = "idle"]
    /\ mp_ret' = [mp_ret EXCEPT ![t] = MPNull]
    /\ mp_loc' = [mp_loc EXCEPT ![t] = MPNoLoc]
    /\ mp_stayed' = [mp_stayed EXCEPT ![t] = {}]
    /\ UNCHANGED <<mp_free_bitmap, mp_allocated, mp_peak_usage, mp_held>>

\* the weak CAS fails (the word changed, or spuriously): reload and retry
MPAllocCasFail(t) ==
    /\ mp_pc[t] = "a_cas"
    /\ UNCHANGED <<mp_calls, mp_stray, mp_stayed, mp_fresh>>
    /\ mp_pc' = [mp_pc EXCEPT ![t] = "a_load"]
    /\ UNCHANGED <<mp_free_bitmap, mp_allocated, mp_peak_usage, mp_loc, mp_held, mp_ret>>

\* allocated = atomic_fetch_add(&pool->allocated, 1) + 1
MPAllocAdd(t) ==
    /\ mp_pc[t] = "a_add"
    /\ UNCHANGED <<mp_calls, mp_stray, mp_stayed, mp_fresh>>
    /\ mp_allocated' = mp_allocated + 1
    /\ mp_loc' = [mp_loc EXCEPT ![t].allocated = mp_allocated + 1]
    /\ mp_pc' = [mp_pc EXCEPT ![t] = "a_peak"]
    /\ UNCHANGED <<mp_free_bitmap, mp_peak_usage, mp_held, mp_ret>>

\* return pool->buffers[index]
MPAllocReturn(t) ==
    /\ mp_held' = [mp_held EXCEPT ![t] = @ \cup {MPBuffers(mp_loc[t].index)}]
    /\ mp_ret' = [mp_ret EXCEPT ![t] = MPBuffers(mp_loc[t].index)]
    /\ mp_pc' = [mp_pc EXCEPT ![t] = "idle"]
    /\ mp_loc' = [mp_loc EXCEPT ![t] = MPNoLoc]

\* peak = atomic_load(&pool->peak_usage) and the first test of while (allocated > peak)
MPAllocPeakLoad(t) ==
    /\ mp_pc[t] = "a_peak"
    /\ UNCHANGED <<mp_calls, mp_stray, mp_stayed, mp_fresh>>
    /\ IF UGt(mp_loc[t].allocated, mp_peak_usage)
       THEN /\ mp_loc' = [mp_loc EXCEPT ![t].peak = mp_peak_usage]
            /\ mp_pc' = [mp_pc EXCEPT ![t] = "a_peakcas"]
            /\ UNCHANGED <<mp_held, mp_ret>>
       ELSE MPAllocReturn(t)
    /\ UNCHANGED <<mp_free_bitmap, mp_allocated, mp_peak_usage>>

\* atomic_compare_exchange_weak(&peak_usage, &peak, allocated) inside the loop:
\* success breaks; failure stores the current value in peak and tests the loop again
MPAllocPeakCas(t) ==
    /\ mp_pc[t] = "a_peakcas"
    /\ UNCHANGED <<mp_calls, mp_stray, mp_stayed, mp_fresh>>
    /\ IF MPCasSucceeds(mp_peak_usage, mp_loc[t].peak)
       THEN /\ mp_peak_usage' = mp_loc[t].allocated
            /\ MPAllocReturn(t)
       ELSE /\ UNCHANGED mp_peak_usage
            /\ IF UGt(mp_loc[t].allocated, mp_peak_usage)
               THEN /\ mp_loc' = [mp_loc EXCEPT ![t].peak = mp_peak_usage]
                    /\ UNCHANGED <<mp_pc, mp_held, mp_ret>>
               ELSE MPAllocReturn(t)
    /\ UNCHANGED <<mp_free_bitmap, mp_allocated>>

\* the linear scan of hev_memory_pool_free: the first slot whose pointer is ptr
MPFindIndex(ptr) ==
    IF \E i \in MPSlots : MPBuffers(i) = ptr
    THEN CHOOSE i \in MPSlots :
             /\ MPBuffers(i) = ptr
             /\ \A j \in MPSlots : MPBuffers(j) = ptr => i <= j
    ELSE -1

\* hev_memory_pool_free(pool, ptr) is entered by a caller that gives ptr up
MPFreeCall(t, ptr) ==
    /\ mp_pc[t] = "idle"
    /\ mp_calls < MPMaxCalls
    /\ mp_calls' = mp_calls + 1
    /\ ptr # MPNull
    /\ mp_held' = [mp_held EXCEPT ![t] = @ \ {ptr}]
    /\ mp_stray' = [mp_stray EXCEPT ![t] = MPFindIndex(ptr) >= 0 /\ MPSlotFree(MPFindIndex(ptr))]
    /\ mp_fresh' = FALSE
    /\ UNCHANGED mp_stayed
    /\ IF MPFindIndex(ptr) < 0
       THEN UNCHANGED <<mp_pc, mp_loc>>
       ELSE /\ mp_loc' = [mp_loc EXCEPT ![t] = [MPNoLoc EXCEPT !.index = MPFindIndex(ptr)]]
            /\ mp_pc' = [mp_pc EXCEPT ![t] = "f_or"]
    /\ UNCHANGED <<mp_free_bitmap, mp_allocated, mp_peak_usage, mp_ret>>

\* atomic_fetch_or(&free_bitmap[word], mask)
MPFreeOr(t) ==
    /\ mp_pc[t] = "f_or"
    /\ UNCHANGED <<mp_calls, mp_stray, mp_stayed, mp_fresh>>
    /\ LET word == mp_loc[t].index \div MPWordBits
           bit == mp_loc[t].index % MPWordBits
       IN  mp_free_bitmap' = [mp_free_bitmap EXCEPT ![word] = BitOr1(@, bit)]
    /\ mp_pc' = [mp_pc EXCEPT ![t] = "f_sub"]
    /\ UNCHANGED <<mp_allocated, mp_peak_usage, mp_loc, mp_held, mp_ret>>

\* atomic_fetch_sub(&pool->allocated, 1)
MPFreeSub(t) ==
    /\ mp_pc[t] = "f_sub"
    /\ UNCHANGED <<mp_calls, mp_stayed, mp_fresh>>
    /\ mp_stray' = [mp_stray EXCEPT ![t] = FALSE]
    /\ mp_allocated' = mp_allocated - 1
    /\ mp_pc' = [mp_pc EXCEPT ![t] = "idle"]
    /\ mp_loc' = [mp_loc EXCEPT ![t] = MPNoLoc]
    /\ UNCHANGED <<mp_free_bitmap, mp_peak_usage, mp_held, mp_ret>>

\* a caller frees a buffer it holds
MPFreeHeld(t) == \E ptr \in mp_held[t] : MPFreeCall(t, ptr)

\* a pointer that is not one of the pool's buffers
MPForeign == 99

\* a caller frees a pointer it does not hold: a buffer of the pool that is free
\* (double free), or a pointer that is not from the pool
MPFreeStray(t) ==
    \E ptr \in {MPBuffers(i) : i \in {j \in MPSlots : MPSlotFree(j)}} \cup {MPForeign} :
        MPFreeCall(t, ptr)

MPFrame == UNCHANGED <<rbVars, tpVars, apVars, cpVars, tnVars, ioVars, atVars, tcVars, cpMisuse>>

MPNext ==
    \/ \E t \in MPThreads : MPAllocCall(t) /\ MPFrame
    \/ \E t \in MPThreads : MPAllocLoad(t) /\ MPFrame
    \/ \E t \in MPThreads : MPAllocCasOk(t) /\ MPFrame
    \/ \E t \in MPThreads : MPAllocCasFail(t) /\ MPFrame
    \/ \E t \in MPThreads : MPAllocAdd(t) /\ MPFrame
    \/ \E t \in MPThreads : MPAllocPeakLoad(t) /\ MPFrame
    \/ \E t \in MPThreads : MPAllocPeakCas(t) /\ MPFrame
    \/ \E t \in MPThreads : MPFreeHeld(t) /\ MPFrame
    \/ \E t \in MPThreads : MPFreeOr(t) /\ MPFrame
    \/ \E t \in MPThreads : MPFreeSub(t) /\ MPFrame

\* the pool with callers that also free pointers they do not hold
MPMisuseNext ==
    \/ \E t \in MPThreads : MPAllocCall(t) /\ MPFrame
    \/ \E t \in MPThreads : MPAllocLoad(t) /\ MPFrame
    \/ \E t \in MPThreads : MPAllocCasOk(t) /\ MPFrame
    \/ \E t \in MPThreads : MPAllocCasFail(t) /\ MPFrame
    \/ \E t \in MPThreads : MPAllocAdd(t) /\ MPFrame
    \/ \E t \in MPThreads : MPAllocPeakLoad(t) /\ MPFrame
    \/ \E t \in MPThreads : MPAllocPeakCas(t) /\ MPFrame
    \/ \E t \in MPThreads : MPFreeHeld(t) /\ MPFrame
    \/ \E t \in MPThreads : MPFreeStray(t) /\ MPFrame
    \/ \E t \in MPThreads : MPFreeOr(t) /\ MPFrame
    \/ \E t \in MPThreads : MPFreeSub(t) /\ MPFrame

(***************************************************************************)
(* SPSC ring (hev-ring-buffer.h, hev-ring-buffer.c)                        *)
(***************************************************************************)

\* RING_BUFFER_SIZE
RBSize == Pow2(RBSizeBits)

\* rb->mask = RING_BUFFER_SIZE - 1
RBMask == RBSize - 1

\* the producer of the model stops after this many accepted pushes
RBMaxPush == (2 * RBSize) + 1

\* a - b on size_t
USub(a, b) == (a - b) % Pow2(SizeTBits)

RBNoPLoc == [head |-> 0, next |-> 0, data |-> 0]
RBNoCLoc == [tail |-> 0, data |-> 0]

\* hev_ring_buffer_new: memset 0, head = tail = cached_head = cached_tail = 0
RBInit ==
    /\ rb_head = 0
    /\ rb_tail = 0
    /\ rb_cached_head = 0
    /\ rb_cached_tail = 0
    /\ rb_buffer = [i \in 0 .. (RBSize - 1) |-> 0]
    /\ rb_ppc = "idle"
    /\ rb_cpc = "idle"
    /\ rb_ploc = RBNoPLoc
    /\ rb_cloc = RBNoCLoc
    /\ rb_pres = 0
    /\ rb_pushed = <<>>
    /\ rb_popped = <<>>

\* mutant: the full test looks one slot too far
RBFullTestOffByOne(next, tail) == BitAnd(next + 1, RBSize - 1) = tail

\* the producer's test for a full ring: next == rb->cached_tail
RBFullTest(next, tail) == next = tail

\* mutant: the empty test looks one slot too far
RBEmptyTestOffByOne(tail, head) == BitAnd(tail + 1, RBSize - 1) = head

\* the consumer's test for an empty ring: tail == rb->cached_head
RBEmptyTest(tail, head) == tail = head

\* the producer calls hev_ring_buffer_push(rb, data) with a fresh non-null pointer
RBPushCall ==
    /\ rb_ppc = "idle"
    /\ Len(rb_pushed) < RBMaxPush
    /\ rb_ploc' = [RBNoPLoc EXCEPT !.data = Len(rb_pushed) + 1]
    /\ rb_ppc' = "p_load_head"
    /\ UNCHANGED <<rb_head, rb_tail, rb_cached_head, rb_cached_tail, rb_buffer, rb_cpc,
                   rb_cloc, rb_pres, rb_pushed, rb_popped>>

\* head = load(rb->head); next = (head + 1) & mask; if (next == rb->cached_tail)
RBPushLoadHead ==
    /\ rb_ppc = "p_load_head"
    /\ LET next == BitAnd(rb_head + 1, RBMask)
       IN  /\ rb_ploc' = [rb_ploc EXCEPT !.head = rb_head, !.next = next]
           /\ rb_ppc' = IF RBFullTest(next, rb_cached_tail) THEN "p_load_tail" ELSE "p_store_buf"
    /\ UNCHANGED <<rb_head, rb_tail, rb_cached_head, rb_cached_tail, rb_buffer, rb_cpc,
                   rb_cloc, rb_pres, rb_pushed, rb_popped>>

\* rb->cached_tail = load(rb->tail); if (next == rb->cached_tail) return -1
RBPushLoadTail ==
    /\ rb_ppc = "p_load_tail"
    /\ rb_cached_tail' = rb_tail
    /\ IF RBFullTest(rb_ploc.next, rb_tail)
       THEN /\ rb_ppc' = "idle"
            /\ rb_pres' = -1
            /\ rb_ploc' = RBNoPLoc
       ELSE /\ rb_ppc' = "p_store_buf"
            /\ UNCHANGED <<rb_pres, rb_ploc>>
    /\ UNCHANGED <<rb_head, rb_tail, rb_cached_head, rb_buffer, rb_cpc, rb_cloc,
                   rb_pushed, rb_popped>>

\* rb->buffer[head] = data
RBPushStoreBuf ==
    /\ rb_ppc = "p_store_buf"
    /\ rb_buffer' = [rb_buffer EXCEPT ![rb_ploc.head] = rb_ploc.data]
    /\ rb_ppc' = "p_store_head"
    /\ UNCHANGED <<rb_head, rb_tail, rb_cached_head, rb_cached_tail, rb_cpc, rb_ploc,
                   rb_cloc, rb_pres, rb_pushed, rb_popped>>

\* store(rb->head, next); return 0
RBPushStoreHead ==
    /\ rb_ppc = "p_store_head"
    /\ rb_head' = rb_ploc.next
    /\ rb_pushed' = Append(rb_pushed, rb_ploc.data)
    /\ rb_pres' = 0
    /\ rb_ppc' = "idle"
    /\ rb_ploc' = RBNoPLoc
    /\ UNCHANGED <<rb_tail, rb_cached_head, rb_cached_tail, rb_buffer, rb_cpc, rb_cloc,
                   rb_popped>>

\* the consumer calls hev_ring_buffer_pop(rb)
RBPopCall ==
    /\ rb_cpc = "idle"
    /\ rb_cloc' = RBNoCLoc
    /\ rb_cpc' = "c_load_tail"
    /\ UNCHANGED <<rb_head, rb_tail, rb_cached_head, rb_cached_tail, rb_buffer, rb_ppc,
                   rb_ploc, rb_pres, rb_pushed, rb_popped>>

\* tail = load(rb->tail); if (tail == rb->cached_head)
RBPopLoadTail ==
    /\ rb_cpc = "c_load_tail"
    /\ rb_cloc' = [rb_cloc EXCEPT !.tail = rb_tail]
    /\ rb_cpc' = IF RBEmptyTest(rb_tail, rb_cached_head) THEN "c_load_head" ELSE "c_read"
    /\ UNCHANGED <<rb_head, rb_tail, rb_cached_head, rb_cached_tail, rb_buffer, rb_ppc,
                   rb_ploc, rb_pres, rb_pushed, rb_popped>>

\* rb->cached_head = load(rb->head); if (tail == rb->cached_head) return NULL
RBPopLoadHead ==
    /\ rb_cpc = "c_load_head"
    /\ rb_cached_head' = rb_head
    /\ IF RBEmptyTest(rb_cloc.tail, rb_head)
       THEN /\ rb_cpc' = "idle"
            /\ rb_cloc' = RBNoCLoc
       ELSE /\ rb_cpc' = "c_read"
            /\ UNCHANGED rb_cloc
    /\ UNCHANGED <<rb_head, rb_tail, rb_cached_tail, rb_buffer, rb_ppc, rb_ploc, rb_pres,
                   rb_pushed, rb_popped>>

\* data = rb->buffer[tail]
RBPopRead ==
    /\ rb_cpc = "c_read"
    /\ rb_cloc' = [rb_cloc EXCEPT !.data = rb_buffer[rb_cloc.tail]]
    /\ rb_cpc' = "c_store_tail"
    /\ UNCHANGED <<rb_head, rb_tail, rb_cached_head, rb_cached_tail, rb_buffer, rb_ppc,
                   rb_ploc, rb_pres, rb_pushed, rb_popped>>

\* store(rb->tail, (tail + 1) & mask); return data
RBPopStoreTail ==
    /\ rb_cpc = "c_store_tail"
    /\ rb_tail' = BitAnd(rb_cloc.tail + 1, RBMask)
    /\ rb_popped' = Append(rb_popped, rb_cloc.data)
    /\ rb_cpc' = "idle"
    /\ rb_cloc' = RBNoCLoc
    /\ UNCHANGED <<rb_head, rb_cached_head, rb_cached_tail, rb_buffer, rb_ppc, rb_ploc,
                   rb_pres, rb_pushed>>

\* hev_ring_buffer_size: (head - tail) & mask
RBSizeOf(head, tail) == BitAnd(USub(head, tail), RBMask)

\* hev_ring_buffer_is_full
RBIsFull(head, tail) == RBSizeOf(head, tail) >= RBSize - 1

\* hev_ring_buffer_is_empty
RBIsEmpty(head, tail) == RBSizeOf(head, tail) = 0

RBFrame == UNCHANGED <<mpVars, tpVars, apVars, cpVars, tnVars, ioVars, atVars, tcVars, cpMisuse>>

RBNext ==
    \/ RBPushCall /\ RBFrame
    \/ RBPushLoadHead /\ RBFrame
    \/ RBPushLoadTail /\ RBFrame
    \/ RBPushStoreBuf /\ RBFrame
    \/ RBPushStoreHead /\ RBFrame
    \/ RBPopCall /\ RBFrame
    \/ RBPopLoadTail /\ RBFrame
    \/ RBPopLoadHead /\ RBFrame
    \/ RBPopRead /\ RBFrame
    \/ RBPopStoreTail /\ RBFrame


(***************************************************************************)
(* Fixed worker pool (hev-thread-pool.c).  Every section of code between  *)
(* pthread_mutex_lock (&pool->queue_mutex) and the next unlock or          *)
(* pthread_cond_wait is one action: the mutex makes it atomic.             *)
(***************************************************************************)

TPWorkers == 1 .. TPNumThreads

TPItems == 1 .. TPMaxSubmits

TPWaiters == 1 .. TPWaiterCount

TPInit ==
    /\ tp_shutdown = 0
    /\ tp_queue = <<>>
    /\ tp_queue_size = 0
    /\ tp_active_threads = 0
    /\ tp_pc = [w \in TPWorkers |-> "top"]
    /\ tp_item = [w \in TPWorkers |-> 0]
    /\ tp_dpc = "idle"
    /\ tp_join_i = 0
    /\ tp_submits = 0
    /\ tp_sres = 0
    /\ tp_accepted = {}
    /\ tp_executed = [i \in TPItems |-> 0]
    /\ tp_freed = {}
    /\ tp_before = {}
    /\ tp_pending = 0
    /\ tp_wpc = [v \in TPWaiters |-> "out"]

\* pthread_cond_signal (&pool->queue_cond): one of the workers blocked in
\* pthread_cond_wait, if any, is released
TPSignalQueueCond(pc) ==
    IF \E w \in TPWorkers : pc[w] = "waiting"
    THEN {[pc EXCEPT ![w] = "woken"] : w \in {x \in TPWorkers : pc[x] = "waiting"}}
    ELSE {pc}

\* pthread_cond_broadcast (&pool->queue_cond)
TPBroadcastQueueCond(pc) == [w \in TPWorkers |-> IF pc[w] = "waiting" THEN "woken" ELSE pc[w]]

\* pthread_cond_signal (&pool->done_cond): one of the threads blocked in the
\* pthread_cond_wait of hev_thread_pool_wait_all, if any, is released
TPSignalDoneCond(wpc) ==
    IF \E v \in TPWaiters : wpc[v] = "waiting"
    THEN {[wpc EXCEPT ![v] = "woken"] : v \in {x \in TPWaiters : wpc[x] = "waiting"}}
    ELSE {wpc}

\* mutant: a worker leaves as soon as shutdown is set
TPWorkerExitsOnShutdown(shutdown, queue_size) == shutdown = 1

\* the worker's test after the wait loop: if (pool->shutdown && pool->queue_size == 0)
TPWorkerExits(shutdown, queue_size) == shutdown = 1 /\ queue_size = 0

\* worker_thread from pthread_mutex_lock (or from the return of pthread_cond_wait)
\* to the unlock or to the next pthread_cond_wait
TPWorkerCheck(w) ==
    /\ tp_pc[w] \in {"top", "woken"}
    /\ IF tp_queue_size = 0 /\ tp_shutdown = 0
       THEN /\ tp_pc' = [tp_pc EXCEPT ![w] = "waiting"]
            /\ UNCHANGED <<tp_queue, tp_queue_size, tp_active_threads, tp_item>>
       ELSE IF TPWorkerExits(tp_shutdown, tp_queue_size)
       THEN /\ tp_pc' = [tp_pc EXCEPT ![w] = "exited"]
            /\ UNCHANGED <<tp_queue, tp_queue_size, tp_active_threads, tp_item>>
       ELSE IF tp_queue # <<>>
       THEN /\ tp_item' = [tp_item EXCEPT ![w] = Head(tp_queue)]
            /\ tp_queue' = Tail(tp_queue)
            /\ tp_queue_size' = tp_queue_size - 1
            /\ tp_active_threads' = tp_active_threads + 1
            /\ tp_pc' = [tp_pc EXCEPT ![w] = "run"]
       ELSE /\ tp_pc' = [tp_pc EXCEPT ![w] = "top"]
            /\ UNCHANGED <<tp_queue, tp_queue_size, tp_active_threads, tp_item>>
    /\ UNCHANGED <<tp_shutdown, tp_dpc, tp_join_i, tp_submits, tp_sres, tp_accepted, tp_executed,
                   tp_freed, tp_before, tp_pending>>
    /\ UNCHANGED tp_wpc

\* pthread_cond_wait may return without a signal
TPSpuriousWake(w) ==
    /\ tp_pc[w] = "waiting"
    /\ tp_pc' = [tp_pc EXCEPT ![w] = "woken"]
    /\ UNCHANGED <<tp_shutdown, tp_queue, tp_queue_size, tp_active_threads, tp_item, tp_dpc,
                   tp_join_i, tp_submits, tp_sres, tp_accepted, tp_executed, tp_freed, tp_before,
                   tp_pending>>
    /\ UNCHANGED tp_wpc

\* item->task (item->data)
TPWorkerRun(w) ==
    /\ tp_pc[w] = "run"
    /\ tp_executed' = [tp_executed EXCEPT ![tp_item[w]] = @ + 1]
    /\ tp_pc' = [tp_pc EXCEPT ![w] = "free"]
    /\ UNCHANGED <<tp_shutdown, tp_queue, tp_queue_size, tp_active_threads, tp_item, tp_dpc,
                   tp_join_i, tp_submits, tp_sres, tp_accepted, tp_freed, tp_before, tp_pending>>
    /\ UNCHANGED tp_wpc

\* free (item)
TPWorkerFree(w) ==
    /\ tp_pc[w] = "free"
    /\ tp_freed' = tp_freed \cup {tp_item[w]}
    /\ tp_pc' = [tp_pc EXCEPT ![w] = "done"]
    /\ UNCHANGED <<tp_shutdown, tp_queue, tp_queue_size, tp_active_threads, tp_item, tp_dpc,
                   tp_join_i, tp_submits, tp_sres, tp_accepted, tp_executed, tp_before, tp_pending>>
    /\ UNCHANGED tp_wpc

\* lock; active_threads--; if (active_threads == 0 && queue_size == 0) signal
\* done_cond; unlock
TPWorkerDone(w) ==
    /\ tp_pc[w] = "done"
    /\ tp_active_threads' = tp_active_threads - 1
    /\ tp_item' = [tp_item EXCEPT ![w] = 0]
    /\ tp_pc' = [tp_pc EXCEPT ![w] = "top"]
    /\ IF tp_active_threads - 1 = 0 /\ tp_queue_size = 0
       THEN tp_wpc' \in TPSignalDoneCond(tp_wpc)
       ELSE UNCHANGED tp_wpc
    /\ UNCHANGED <<tp_shutdown, tp_queue, tp_queue_size, tp_dpc, tp_join_i, tp_submits,
                   tp_sres, tp_accepted, tp_executed, tp_freed, tp_before, tp_pending>>

\* mutant: the limit test lets one more item in (queue_size > MAX_QUEUE_SIZE)
TPSubmitOffByOne ==
    /\ tp_submits < TPMaxSubmits
    /\ tp_dpc \in {"idle", "join"}
    /\ tp_submits' = tp_submits + 1
    /\ IF tp_queue_size > TPMaxQueueSize
       THEN /\ tp_sres' = -1
            /\ tp_freed' = tp_freed \cup {tp_submits + 1}
            /\ UNCHANGED <<tp_queue, tp_queue_size, tp_pc, tp_accepted>>
       ELSE /\ tp_sres' = 0
            /\ tp_accepted' = tp_accepted \cup {tp_submits + 1}
            /\ tp_queue' = Append(tp_queue, tp_submits + 1)
            /\ tp_queue_size' = tp_queue_size + 1
            /\ tp_pc' \in TPSignalQueueCond(tp_pc)
            /\ UNCHANGED tp_freed
    /\ UNCHANGED <<tp_shutdown, tp_active_threads, tp_item, tp_dpc, tp_join_i, tp_executed,
                   tp_before, tp_pending>>
    /\ UNCHANGED tp_wpc

\* hev_thread_pool_submit: the queue-full test, the append at the tail and the signal
TPSubmit ==
    /\ tp_submits < TPMaxSubmits
    /\ tp_dpc \in {"idle", "join"}
    /\ tp_submits' = tp_submits + 1
    /\ IF tp_queue_size >= TPMaxQueueSize
       THEN /\ tp_sres' = -1
            /\ tp_freed' = tp_freed \cup {tp_submits + 1}
            /\ UNCHANGED <<tp_queue, tp_queue_size, tp_pc, tp_accepted>>
       ELSE /\ tp_sres' = 0
            /\ tp_accepted' = tp_accepted \cup {tp_submits + 1}
            /\ tp_queue' = Append(tp_queue, tp_submits + 1)
            /\ tp_queue_size' = tp_queue_size + 1
            /\ tp_pc' \in TPSignalQueueCond(tp_pc)
            /\ UNCHANGED tp_freed
    /\ UNCHANGED <<tp_shutdown, tp_active_threads, tp_item, tp_dpc, tp_join_i, tp_executed,
                   tp_before, tp_pending>>
    /\ UNCHANGED tp_wpc

\* hev_thread_pool_destroy: lock; shutdown = 1; broadcast; unlock
TPDestroyBegin ==
    /\ tp_dpc = "idle"
    /\ tp_shutdown' = 1
    /\ tp_pc' = TPBroadcastQueueCond(tp_pc)
    /\ tp_dpc' = "join"
    /\ tp_join_i' = 0
    /\ tp_before' = tp_accepted
    /\ tp_pending' = Len(tp_queue)
    /\ UNCHANGED <<tp_queue, tp_queue_size, tp_active_threads, tp_item, tp_submits, tp_sres, tp_accepted,
                   tp_executed, tp_freed>>
    /\ UNCHANGED tp_wpc

\* pthread_join (pool->threads[i], NULL) returns once that worker has exited
TPDestroyJoin ==
    /\ tp_dpc = "join"
    /\ tp_join_i < TPNumThreads
    /\ tp_pc[tp_join_i + 1] = "exited"
    /\ tp_join_i' = tp_join_i + 1
    /\ UNCHANGED <<tp_shutdown, tp_queue, tp_queue_size, tp_active_threads, tp_pc, tp_item,
                   tp_dpc, tp_submits, tp_sres, tp_accepted, tp_executed, tp_freed, tp_before, tp_pending>>
    /\ UNCHANGED tp_wpc

\* the clean-up loop of destroy frees the items still queued; then the pool is freed
TPDestroyClean ==
    /\ tp_dpc = "join"
    /\ tp_join_i = TPNumThreads
    /\ tp_freed' = tp_freed \cup {tp_queue[k] : k \in 1 .. Len(tp_queue)}
    /\ tp_queue' = <<>>
    /\ tp_dpc' = "returned"
    /\ UNCHANGED <<tp_shutdown, tp_queue_size, tp_active_threads, tp_pc, tp_item, tp_join_i,
                   tp_submits, tp_sres, tp_accepted, tp_executed, tp_before, tp_pending>>
    /\ UNCHANGED tp_wpc

\* hev_thread_pool_wait_all from pthread_mutex_lock (or from the return of
\* pthread_cond_wait) to the next pthread_cond_wait or to the unlock and return
TPWaitAllCheck(v) ==
    /\ tp_wpc[v] \in {"out", "woken"}
    /\ tp_dpc = "idle"
    /\ IF tp_queue_size > 0 \/ tp_active_threads > 0
       THEN tp_wpc' = [tp_wpc EXCEPT ![v] = "waiting"]
       ELSE tp_wpc' = [tp_wpc EXCEPT ![v] = "returned"]
    /\ UNCHANGED <<tp_shutdown, tp_queue, tp_queue_size, tp_active_threads, tp_pc, tp_item, tp_dpc,
                   tp_join_i, tp_submits, tp_sres, tp_accepted, tp_executed, tp_freed, tp_before,
                   tp_pending>>

\* the pthread_cond_wait of wait_all may return without a signal
TPWaitAllSpuriousWake(v) ==
    /\ tp_wpc[v] = "waiting"
    /\ tp_wpc' = [tp_wpc EXCEPT ![v] = "woken"]
    /\ UNCHANGED <<tp_shutdown, tp_queue, tp_queue_size, tp_active_threads, tp_pc, tp_item, tp_dpc,
                   tp_join_i, tp_submits, tp_sres, tp_accepted, tp_executed, tp_freed, tp_before,
                   tp_pending>>

TPFrame == UNCHANGED <<mpVars, rbVars, apVars, cpVars, tnVars, ioVars, atVars, tcVars, cpMisuse>>

TPNext ==
    \/ \E w \in TPWorkers : TPWorkerCheck(w) /\ TPFrame
    \/ \E w \in TPWorkers : TPSpuriousWake(w) /\ TPFrame
    \/ \E w \in TPWorkers : TPWorkerRun(w) /\ TPFrame
    \/ \E w \in TPWorkers : TPWorkerFree(w) /\ TPFrame
    \/ \E w \in TPWorkers : TPWorkerDone(w) /\ TPFrame
    \/ TPSubmit /\ TPFrame
    \/ TPDestroyBegin /\ TPFrame
    \/ TPDestroyJoin /\ TPFrame
    \/ TPDestroyClean /\ TPFrame

\* the pool with threads that call hev_thread_pool_wait_all
TPWaitNext ==
    \/ \E w \in TPWorkers : TPWorkerCheck(w) /\ TPFrame
    \/ \E w \in TPWorkers : TPSpuriousWake(w) /\ TPFrame
    \/ \E w \in TPWorkers : TPWorkerRun(w) /\ TPFrame
    \/ \E w \in TPWorkers : TPWorkerFree(w) /\ TPFrame
    \/ \E w \in TPWorkers : TPWorkerDone(w) /\ TPFrame
    \/ TPSubmit /\ TPFrame
    \/ \E v \in TPWaiters : TPWaitAllCheck(v) /\ TPFrame
    \/ \E v \in TPWaiters : TPWaitAllSpuriousWake(v) /\ TPFrame

\* the scheduler runs every thread that can take a step; a return of
\* pthread_cond_wait without a signal is never guaranteed
TPWaitFair ==
    /\ \A w \in TPWorkers :
           /\ WF_vars(TPWorkerCheck(w) /\ TPFrame)
           /\ WF_vars(TPWorkerRun(w) /\ TPFrame)
           /\ WF_vars(TPWorkerFree(w) /\ TPFrame)
           /\ WF_vars(TPWorkerDone(w) /\ TPFrame)
    /\ \A v \in TPWaiters : WF_vars((tp_wpc[v] = "woken") /\ TPWaitAllCheck(v) /\ TPFrame)


(***************************************************************************)
(* Adaptive worker pool (hev-adaptive-pool.c).  pool->mutex is explicit:   *)
(* idle_threads, current_threads and the ring indices are atomics that     *)
(* hev_adaptive_pool_adjust reads without the mutex.                       *)
(***************************************************************************)

\* the queue-depth limit of the scale-down test (queue_depth < 10)
APScaleDownQueueLimit == 10

\* the idle limit of the scale-up test (idle < 2)
APScaleUpIdleLimit == 2

\* the threads pthread_create can start in the model
APTids == 1 .. (APMinThreads + APMaxCalls)

\* the identity of pool->adjuster_thread
APAdjusterTid == APMinThreads + APMaxCalls + 1

APSlots == 0 .. (APMaxThreads - 1)

APItems == 1 .. APMaxCalls

\* the adjuster thread and a thread that calls hev_adaptive_pool_adjust itself
APAdjusters == {"adjuster", "manual"}

APNoALoc == [head |-> 0, queue_depth |-> 0, idle |-> 0, current |-> 0]

\* hev_ring_buffer_push run to completion by the holder of pool->mutex
RBPushSeq(rb, data) ==
    LET next == BitAnd(rb.head + 1, RBMask)
        ct == IF RBFullTest(next, rb.cached_tail) THEN rb.tail ELSE rb.cached_tail
    IN  IF RBFullTest(next, rb.cached_tail) /\ RBFullTest(next, ct)
        THEN [rb |-> [rb EXCEPT !.cached_tail = ct], res |-> -1]
        ELSE [rb |-> [rb EXCEPT !.cached_tail = ct,
                                !.buffer = [rb.buffer EXCEPT ![rb.head] = data],
                                !.head = next],
              res |-> 0]

\* hev_ring_buffer_pop run to completion by the holder of pool->mutex
RBPopSeq(rb) ==
    LET ch == IF RBEmptyTest(rb.tail, rb.cached_head) THEN rb.head ELSE rb.cached_head
    IN  IF RBEmptyTest(rb.tail, rb.cached_head) /\ RBEmptyTest(rb.tail, ch)
        THEN [rb |-> [rb EXCEPT !.cached_head = ch], data |-> 0]
        ELSE [rb |-> [rb EXCEPT !.cached_head = ch, !.tail = BitAnd(rb.tail + 1, RBMask)],
              data |-> rb.buffer[rb.tail]]

\* hev_adaptive_pool_new: min_threads workers in slots 0 .. min-1, the adjuster
APInit ==
    /\ ap_running = TRUE
    /\ ap_current_threads = APMinThreads
    /\ ap_active_threads = 0
    /\ ap_idle_threads = 0
    /\ ap_workers = [k \in APSlots |->
                        IF k < APMinThreads
                        THEN [thread |-> k + 1, active |-> TRUE, should_exit |-> FALSE]
                        ELSE [thread |-> 0, active |-> FALSE, should_exit |-> FALSE]]
    /\ ap_work_queue = [head |-> 0, tail |-> 0, cached_head |-> 0, cached_tail |-> 0,
                        buffer |-> [i \in 0 .. (RBSize - 1) |-> 0]]
    /\ ap_mutex = 0
    /\ ap_wpc = [t \in APTids |-> IF t <= APMinThreads THEN "top" ELSE "none"]
    /\ ap_witem = [t \in APTids |-> 0]
    /\ ap_apc = [a \in APAdjusters |-> "idle"]
    /\ ap_aloc = [a \in APAdjusters |-> APNoALoc]
    /\ ap_dpc = "idle"
    /\ ap_dloc = [count |-> 0, i |-> 0]
    /\ ap_joined = {}
    /\ ap_next_tid = APMinThreads + 1
    /\ ap_submits = 0
    /\ ap_adjusts = 0
    /\ ap_executed = [i \in APItems |-> 0]

\* while (atomic_load(&pool->running))
APWorkerTop(t) ==
    /\ ap_wpc[t] = "top"
    /\ ap_wpc' = [ap_wpc EXCEPT ![t] = IF ap_running THEN "lock" ELSE "exited"]
    /\ UNCHANGED <<ap_running, ap_current_threads, ap_active_threads, ap_idle_threads,
                   ap_workers, ap_work_queue, ap_mutex, ap_witem, ap_apc, ap_aloc, ap_dpc,
                   ap_dloc, ap_joined, ap_next_tid, ap_submits, ap_adjusts, ap_executed>>

\* pthread_mutex_lock(&pool->mutex); atomic_fetch_add(&pool->idle_threads, 1)
APWorkerLock(t) ==
    /\ ap_wpc[t] = "lock"
    /\ ap_mutex = 0
    /\ ap_mutex' = t
    /\ ap_idle_threads' = ap_idle_threads + 1
    /\ ap_wpc' = [ap_wpc EXCEPT ![t] = "check"]
    /\ UNCHANGED <<ap_running, ap_current_threads, ap_active_threads, ap_workers,
                   ap_work_queue, ap_witem, ap_apc, ap_aloc, ap_dpc, ap_dloc, ap_joined,
                   ap_next_tid, ap_submits, ap_adjusts, ap_executed>>

\* while (running && hev_ring_buffer_is_empty(work_queue)) pthread_cond_wait(...)
APWorkerCheck(t) ==
    /\ ap_wpc[t] = "check"
    /\ ap_mutex = t
    /\ IF ap_running /\ RBIsEmpty(ap_work_queue.head, ap_work_queue.tail)
       THEN /\ ap_mutex' = 0
            /\ ap_wpc' = [ap_wpc EXCEPT ![t] = "waiting"]
       ELSE /\ ap_wpc' = [ap_wpc EXCEPT ![t] = "unidle"]
            /\ UNCHANGED ap_mutex
    /\ UNCHANGED <<ap_running, ap_current_threads, ap_active_threads, ap_idle_threads,
                   ap_workers, ap_work_queue, ap_witem, ap_apc, ap_aloc, ap_dpc, ap_dloc,
                   ap_joined, ap_next_tid, ap_submits, ap_adjusts, ap_executed>>

\* pthread_cond_wait returns: the mutex is taken again
APWorkerWoken(t) ==
    /\ ap_wpc[t] = "woken"
    /\ ap_mutex = 0
    /\ ap_mutex' = t
    /\ ap_wpc' = [ap_wpc EXCEPT ![t] = "check"]
    /\ UNCHANGED <<ap_running, ap_current_threads, ap_active_threads, ap_idle_threads,
                   ap_workers, ap_work_queue, ap_witem, ap_apc, ap_aloc, ap_dpc, ap_dloc,
                   ap_joined, ap_next_tid, ap_submits, ap_adjusts, ap_executed>>

\* pthread_cond_wait may return without a signal
APSpuriousWake(t) ==
    /\ ap_wpc[t] = "waiting"
    /\ ap_wpc' = [ap_wpc EXCEPT ![t] = "woken"]
    /\ UNCHANGED <<ap_running, ap_current_threads, ap_active_threads, ap_idle_threads,
                   ap_workers, ap_work_queue, ap_mutex, ap_witem, ap_apc, ap_aloc, ap_dpc,
                   ap_dloc, ap_joined, ap_next_tid, ap_submits, ap_adjusts, ap_executed>>

\* atomic_fetch_sub(&pool->idle_threads, 1)
APWorkerUnidle(t) ==
    /\ ap_wpc[t] = "unidle"
    /\ ap_idle_threads' = ap_idle_threads - 1
    /\ ap_wpc' = [ap_wpc EXCEPT ![t] = "take"]
    /\ UNCHANGED <<ap_running, ap_current_threads, ap_active_threads, ap_workers,
                   ap_work_queue, ap_mutex, ap_witem, ap_apc, ap_aloc, ap_dpc, ap_dloc,
                   ap_joined, ap_next_tid, ap_submits, ap_adjusts, ap_executed>>

\* if (!running) { unlock; break; }  work = hev_ring_buffer_pop(...); unlock
APWorkerTake(t) ==
    /\ ap_wpc[t] = "take"
    /\ ap_mutex = t
    /\ ap_mutex' = 0
    /\ IF ~ap_running
       THEN /\ ap_wpc' = [ap_wpc EXCEPT ![t] = "exited"]
            /\ UNCHANGED <<ap_work_queue, ap_witem>>
       ELSE LET r == RBPopSeq(ap_work_queue)
            IN  /\ ap_work_queue' = r.rb
                /\ ap_witem' = [ap_witem EXCEPT ![t] = r.data]
                /\ ap_wpc' = [ap_wpc EXCEPT ![t] = IF r.data # 0 THEN "got" ELSE "top"]
    /\ UNCHANGED <<ap_running, ap_current_threads, ap_active_threads, ap_idle_threads,
                   ap_workers, ap_apc, ap_aloc, ap_dpc, ap_dloc, ap_joined, ap_next_tid,
                   ap_submits, ap_adjusts, ap_executed>>

\* atomic_fetch_add(&pool->active_threads, 1)
APWorkerActive(t) ==
    /\ ap_wpc[t] = "got"
    /\ ap_active_threads' = ap_active_threads + 1
    /\ ap_wpc' = [ap_wpc EXCEPT ![t] = "run"]
    /\ UNCHANGED <<ap_running, ap_current_threads, ap_idle_threads, ap_workers,
                   ap_work_queue, ap_mutex, ap_witem, ap_apc, ap_aloc, ap_dpc, ap_dloc,
                   ap_joined, ap_next_tid, ap_submits, ap_adjusts, ap_executed>>

\* work->task(work->data); free(work)
APWorkerRun(t) ==
    /\ ap_wpc[t] = "run"
    /\ ap_executed' = [ap_executed EXCEPT ![ap_witem[t]] = @ + 1]
    /\ ap_witem' = [ap_witem EXCEPT ![t] = 0]
    /\ ap_wpc' = [ap_wpc EXCEPT ![t] = "ran"]
    /\ UNCHANGED <<ap_running, ap_current_threads, ap_active_threads, ap_idle_threads,
                   ap_workers, ap_work_queue, ap_mutex, ap_apc, ap_aloc, ap_dpc, ap_dloc,
                   ap_joined, ap_next_tid, ap_submits, ap_adjusts>>

\* atomic_fetch_sub(&pool->active_threads, 1)
APWorkerInactive(t) ==
    /\ ap_wpc[t] = "ran"
    /\ ap_active_threads' = ap_active_threads - 1
    /\ ap_wpc' = [ap_wpc EXCEPT ![t] = "top"]
    /\ UNCHANGED <<ap_running, ap_current_threads, ap_idle_threads, ap_workers,
                   ap_work_queue, ap_mutex, ap_witem, ap_apc, ap_aloc, ap_dpc, ap_dloc,
                   ap_joined, ap_next_tid, ap_submits, ap_adjusts, ap_executed>>

\* pthread_cond_signal(&pool->cond): one waiting worker, if any, is released
APSignalCond(pc) ==
    IF \E t \in APTids : pc[t] = "waiting"
    THEN {[pc EXCEPT ![t] = "woken"] : t \in {x \in APTids : pc[x] = "waiting"}}
    ELSE {pc}

\* pthread_cond_broadcast(&pool->cond)
APBroadcastCond(pc) == [t \in APTids |-> IF pc[t] = "waiting" THEN "woken" ELSE pc[t]]

\* hev_adaptive_pool_submit: lock; push; signal; unlock
APSubmit ==
    /\ ap_submits + ap_adjusts < APMaxCalls
    /\ ap_dpc = "idle"
    /\ ap_mutex = 0
    /\ ap_submits' = ap_submits + 1
    /\ LET r == RBPushSeq(ap_work_queue, ap_submits + 1)
       IN  /\ ap_work_queue' = r.rb
           /\ IF r.res < 0
              THEN UNCHANGED ap_wpc
              ELSE ap_wpc' \in APSignalCond(ap_wpc)
    /\ UNCHANGED <<ap_running, ap_current_threads, ap_active_threads, ap_idle_threads,
                   ap_workers, ap_mutex, ap_witem, ap_apc, ap_aloc, ap_dpc, ap_dloc,
                   ap_joined, ap_next_tid, ap_adjusts, ap_executed>>


\* adjuster_thread_func: sleep is over and running still holds, or a thread of the
\* application calls hev_adaptive_pool_adjust on a pool it has not destroyed
APAdjustCall(a) ==
    /\ ap_apc[a] = "idle"
    /\ ap_submits + ap_adjusts < APMaxCalls
    /\ IF a = "adjuster" THEN ap_running ELSE ap_dpc = "idle"
    /\ ap_adjusts' = ap_adjusts + 1
    /\ ap_apc' = [ap_apc EXCEPT ![a] = "a_head"]
    /\ UNCHANGED <<ap_running, ap_current_threads, ap_active_threads, ap_idle_threads,
                   ap_workers, ap_work_queue, ap_mutex, ap_wpc, ap_witem, ap_aloc, ap_dpc,
                   ap_dloc, ap_joined, ap_next_tid, ap_submits, ap_executed>>

\* adjuster_thread_func: running is false at the loop test or after the sleep
APAdjusterExit ==
    /\ ap_apc["adjuster"] = "idle"
    /\ ~ap_running
    /\ ap_apc' = [ap_apc EXCEPT !["adjuster"] = "exited"]
    /\ UNCHANGED <<ap_running, ap_current_threads, ap_active_threads, ap_idle_threads,
                   ap_workers, ap_work_queue, ap_mutex, ap_wpc, ap_witem, ap_aloc, ap_dpc,
                   ap_dloc, ap_joined, ap_next_tid, ap_submits, ap_adjusts, ap_executed>>

\* hev_ring_buffer_size: head = atomic_load(&rb->head)
APAdjustLoadHead(a) ==
    /\ ap_apc[a] = "a_head"
    /\ ap_aloc' = [ap_aloc EXCEPT ![a].head = ap_work_queue.head]
    /\ ap_apc' = [ap_apc EXCEPT ![a] = "a_tail"]
    /\ UNCHANGED <<ap_running, ap_current_threads, ap_active_threads, ap_idle_threads,
                   ap_workers, ap_work_queue, ap_mutex, ap_wpc, ap_witem, ap_dpc, ap_dloc,
                   ap_joined, ap_next_tid, ap_submits, ap_adjusts, ap_executed>>

\* hev_ring_buffer_size: tail = atomic_load(&rb->tail); queue_depth = (head - tail) & mask
APAdjustLoadTail(a) ==
    /\ ap_apc[a] = "a_tail"
    /\ ap_aloc' = [ap_aloc EXCEPT ![a].queue_depth =
                                      RBSizeOf(ap_aloc[a].head, ap_work_queue.tail)]
    /\ ap_apc' = [ap_apc EXCEPT ![a] = "a_idle"]
    /\ UNCHANGED <<ap_running, ap_current_threads, ap_active_threads, ap_idle_threads,
                   ap_workers, ap_work_queue, ap_mutex, ap_wpc, ap_witem, ap_dpc, ap_dloc,
                   ap_joined, ap_next_tid, ap_submits, ap_adjusts, ap_executed>>

\* idle = atomic_load(&pool->idle_threads)
APAdjustLoadIdle(a) ==
    /\ ap_apc[a] = "a_idle"
    /\ ap_aloc' = [ap_aloc EXCEPT ![a].idle = ap_idle_threads]
    /\ ap_apc' = [ap_apc EXCEPT ![a] = "a_current"]
    /\ UNCHANGED <<ap_running, ap_current_threads, ap_active_threads, ap_idle_threads,
                   ap_workers, ap_work_queue, ap_mutex, ap_wpc, ap_witem, ap_dpc, ap_dloc,
                   ap_joined, ap_next_tid, ap_submits, ap_adjusts, ap_executed>>

\* current = atomic_load(&pool->current_threads)
APAdjustLoadCurrent(a) ==
    /\ ap_apc[a] = "a_current"
    /\ ap_aloc' = [ap_aloc EXCEPT ![a].current = ap_current_threads]
    /\ ap_apc' = [ap_apc EXCEPT ![a] = "a_decide"]
    /\ UNCHANGED <<ap_running, ap_current_threads, ap_active_threads, ap_idle_threads,
                   ap_workers, ap_work_queue, ap_mutex, ap_wpc, ap_witem, ap_dpc, ap_dloc,
                   ap_joined, ap_next_tid, ap_submits, ap_adjusts, ap_executed>>

\* the scale-up test of hev_adaptive_pool_adjust
APScaleUpTest(queue_depth, idle, current) ==
    /\ queue_depth > APScaleUpThreshold
    /\ idle < APScaleUpIdleLimit
    /\ current < APMaxThreads

\* mutant: the scale-down test does not look at min_threads
APScaleDownTestNoMin(queue_depth, idle, current) ==
    /\ idle > APScaleDownThreshold
    /\ queue_depth < APScaleDownQueueLimit

\* the scale-down test of hev_adaptive_pool_adjust (the else-if branch)
APScaleDownTest(queue_depth, idle, current) ==
    /\ idle > APScaleDownThreshold
    /\ queue_depth < APScaleDownQueueLimit
    /\ current > APMinThreads

\* scale up: pthread_create(&workers[current].thread, ...); atomic_init(active, true)
APAdjustCreate(a) ==
    /\ ap_apc[a] = "a_decide"
    /\ APScaleUpTest(ap_aloc[a].queue_depth, ap_aloc[a].idle, ap_aloc[a].current)
    /\ ap_next_tid \in APTids
    /\ ap_workers' = [ap_workers EXCEPT ![ap_aloc[a].current] =
                          [@ EXCEPT !.thread = ap_next_tid, !.active = TRUE]]
    /\ ap_wpc' = [ap_wpc EXCEPT ![ap_next_tid] = "top"]
    /\ ap_next_tid' = ap_next_tid + 1
    /\ ap_apc' = [ap_apc EXCEPT ![a] = "a_inc"]
    /\ UNCHANGED <<ap_running, ap_current_threads, ap_active_threads, ap_idle_threads,
                   ap_work_queue, ap_mutex, ap_witem, ap_aloc, ap_dpc, ap_dloc, ap_joined,
                   ap_submits, ap_adjusts, ap_executed>>

\* scale up: atomic_fetch_add(&pool->current_threads, 1)
APAdjustInc(a) ==
    /\ ap_apc[a] = "a_inc"
    /\ ap_current_threads' = ap_current_threads + 1
    /\ ap_apc' = [ap_apc EXCEPT ![a] = "idle"]
    /\ ap_aloc' = [ap_aloc EXCEPT ![a] = APNoALoc]
    /\ UNCHANGED <<ap_running, ap_active_threads, ap_idle_threads, ap_workers,
                   ap_work_queue, ap_mutex, ap_wpc, ap_witem, ap_dpc, ap_dloc, ap_joined,
                   ap_next_tid, ap_submits, ap_adjusts, ap_executed>>

\* scale down: atomic_fetch_sub(&pool->current_threads, 1) and nothing else
APAdjustDec(a) ==
    /\ ap_apc[a] = "a_decide"
    /\ ~APScaleUpTest(ap_aloc[a].queue_depth, ap_aloc[a].idle, ap_aloc[a].current)
    /\ APScaleDownTest(ap_aloc[a].queue_depth, ap_aloc[a].idle, ap_aloc[a].current)
    /\ ap_current_threads' = ap_current_threads - 1
    /\ ap_apc' = [ap_apc EXCEPT ![a] = "idle"]
    /\ ap_aloc' = [ap_aloc EXCEPT ![a] = APNoALoc]
    /\ UNCHANGED <<ap_running, ap_active_threads, ap_idle_threads, ap_workers,
                   ap_work_queue, ap_mutex, ap_wpc, ap_witem, ap_dpc, ap_dloc, ap_joined,
                   ap_next_tid, ap_submits, ap_adjusts, ap_executed>>

\* neither test holds: hev_adaptive_pool_adjust returns
APAdjustNone(a) ==
    /\ ap_apc[a] = "a_decide"
    /\ ~APScaleUpTest(ap_aloc[a].queue_depth, ap_aloc[a].idle, ap_aloc[a].current)
    /\ ~APScaleDownTest(ap_aloc[a].queue_depth, ap_aloc[a].idle, ap_aloc[a].current)
    /\ ap_apc' = [ap_apc EXCEPT ![a] = "idle"]
    /\ ap_aloc' = [ap_aloc EXCEPT ![a] = APNoALoc]
    /\ UNCHANGED <<ap_running, ap_current_threads, ap_active_threads, ap_idle_threads,
                   ap_workers, ap_work_queue, ap_mutex, ap_wpc, ap_witem, ap_dpc, ap_dloc,
                   ap_joined, ap_next_tid, ap_submits, ap_adjusts, ap_executed>>

\* hev_adaptive_pool_destroy: atomic_store(&pool->running, false)
APDestroyBegin ==
    /\ ap_dpc = "idle"
    /\ ap_apc["manual"] = "idle"
    /\ ap_running' = FALSE
    /\ ap_dpc' = "d_bcast"
    /\ UNCHANGED <<ap_current_threads, ap_active_threads, ap_idle_threads, ap_workers,
                   ap_work_queue, ap_mutex, ap_wpc, ap_witem, ap_apc, ap_aloc, ap_dloc,
                   ap_joined, ap_next_tid, ap_submits, ap_adjusts, ap_executed>>

\* lock; pthread_cond_broadcast(&pool->cond); unlock
APDestroyBroadcast ==
    /\ ap_dpc = "d_bcast"
    /\ ap_mutex = 0
    /\ ap_wpc' = APBroadcastCond(ap_wpc)
    /\ ap_dpc' = "d_join_adj"
    /\ UNCHANGED <<ap_running, ap_current_threads, ap_active_threads, ap_idle_threads,
                   ap_workers, ap_work_queue, ap_mutex, ap_witem, ap_apc, ap_aloc, ap_dloc,
                   ap_joined, ap_next_tid, ap_submits, ap_adjusts, ap_executed>>

\* pthread_join(pool->adjuster_thread); count = atomic_load(&pool->current_threads)
APDestroyJoinAdjuster ==
    /\ ap_dpc = "d_join_adj"
    /\ ap_apc["adjuster"] = "exited"
    /\ ap_joined' = ap_joined \cup {APAdjusterTid}
    /\ ap_dloc' = [count |-> ap_current_threads, i |-> 0]
    /\ ap_dpc' = "d_join_w"
    /\ UNCHANGED <<ap_running, ap_current_threads, ap_active_threads, ap_idle_threads,
                   ap_workers, ap_work_queue, ap_mutex, ap_wpc, ap_witem, ap_apc, ap_aloc,
                   ap_next_tid, ap_submits, ap_adjusts, ap_executed>>

\* for (i < count): if (workers[i].active) pthread_join(workers[i].thread).  An index
\* past the workers array (count > max_threads) reads outside the allocation; the
\* model lets that read find no thread to wait for.
APDestroyJoinWorker ==
    /\ ap_dpc = "d_join_w"
    /\ ap_dloc.i < ap_dloc.count
    /\ IF ap_dloc.i \in APSlots /\ ap_workers[ap_dloc.i].active
       THEN /\ ap_wpc[ap_workers[ap_dloc.i].thread] = "exited"
            /\ ap_joined' = ap_joined \cup {ap_workers[ap_dloc.i].thread}
       ELSE UNCHANGED ap_joined
    /\ ap_dloc' = [ap_dloc EXCEPT !.i = @ + 1]
    /\ UNCHANGED <<ap_running, ap_current_threads, ap_active_threads, ap_idle_threads,
                   ap_workers, ap_work_queue, ap_mutex, ap_wpc, ap_witem, ap_apc, ap_aloc,
                   ap_dpc, ap_next_tid, ap_submits, ap_adjusts, ap_executed>>

\* the loop is over: the ring, the mutex, the array and the pool are freed
APDestroyFree ==
    /\ ap_dpc = "d_join_w"
    /\ ap_dloc.i >= ap_dloc.count
    /\ ap_dpc' = "returned"
    /\ UNCHANGED <<ap_running, ap_current_threads, ap_active_threads, ap_idle_threads,
                   ap_workers, ap_work_queue, ap_mutex, ap_wpc, ap_witem, ap_apc, ap_aloc,
                   ap_dloc, ap_joined, ap_next_tid, ap_submits, ap_adjusts, ap_executed>>

APFrame == UNCHANGED <<mpVars, rbVars, tpVars, cpVars, tnVars, ioVars, atVars, tcVars, cpMisuse>>

APNext ==
    \/ \E t \in APTids : APWorkerTop(t) /\ APFrame
    \/ \E t \in APTids : APWorkerLock(t) /\ APFrame
    \/ \E t \in APTids : APWorkerCheck(t) /\ APFrame
    \/ \E t \in APTids : APWorkerWoken(t) /\ APFrame
    \/ \E t \in APTids : APSpuriousWake(t) /\ APFrame
    \/ \E t \in APTids : APWorkerUnidle(t) /\ APFrame
    \/ \E t \in APTids : APWorkerTake(t) /\ APFrame
    \/ \E t \in APTids : APWorkerActive(t) /\ APFrame
    \/ \E t \in APTids : APWorkerRun(t) /\ APFrame
    \/ \E t \in APTids : APWorkerInactive(t) /\ APFrame
    \/ APSubmit /\ APFrame
    \/ \E a \in APAdjusters : APAdjustCall(a) /\ APFrame
    \/ APAdjusterExit /\ APFrame
    \/ \E a \in APAdjusters : APAdjustLoadHead(a) /\ APFrame
    \/ \E a \in APAdjusters : APAdjustLoadTail(a) /\ APFrame
    \/ \E a \in APAdjusters : APAdjustLoadIdle(a) /\ APFrame
    \/ \E a \in APAdjusters : APAdjustLoadCurrent(a) /\ APFrame
    \/ \E a \in APAdjusters : APAdjustCreate(a) /\ APFrame
    \/ \E a \in APAdjusters : APAdjustInc(a) /\ APFrame
    \/ \E a \in APAdjusters : APAdjustDec(a) /\ APFrame
    \/ \E a \in APAdjusters : APAdjustNone(a) /\ APFrame
    \/ APDestroyBegin /\ APFrame
    \/ APDestroyBroadcast /\ APFrame
    \/ APDestroyJoinAdjuster /\ APFrame
    \/ APDestroyJoinWorker /\ APFrame
    \/ APDestroyFree /\ APFrame


(***************************************************************************)
(* Connection pool (hev-connection-pool.c).  Every function body between   *)
(* pthread_mutex_lock and pthread_mutex_unlock is one step; the socket and *)
(* connect calls of hev_connection_pool_get run outside the mutex.         *)
(***************************************************************************)

\* #define CONN_IDLE_TIMEOUT 60
CONN_IDLE_TIMEOUT == 60

CPSlots == 0 .. (CPSize - 1)

CPCallers == 1 .. CPCallerCount

CPDests == 1 .. CPDestCount

\* the descriptors there can be: every get call opens at most one, and the
\* application may have handed over one per slot
CPFds == 1 .. (CPMaxGets + CPSize)

\* the clock advances half an idle timeout at a time
CPTickStep == CONN_IDLE_TIMEOUT \div 2

CPNoLoc == [fd |-> -1, dest |-> 0]

\* the descriptor socket() returns: the lowest one that is not open
CPLowestFree(open) == CHOOSE f \in CPFds \ open : \A g \in CPFds \ open : f <= g

\* hev_connection_pool_new
CPInit ==
    /\ cp_conns = [i \in CPSlots |-> [fd |-> -1, in_use |-> FALSE, last_used |-> 0,
                                      use_count |-> 0]]
    /\ cp_total_requests = 0
    /\ cp_cache_hits = 0
    /\ cp_cache_misses = 0
    /\ cp_evictions = 0
    /\ cp_now = 0
    /\ cp_open = {}
    /\ cp_dest = [f \in CPFds |-> 0]
    /\ cp_alive = [f \in CPFds |-> FALSE]
    /\ cp_pc = [c \in CPCallers |-> "idle"]
    /\ cp_loc = [c \in CPCallers |-> CPNoLoc]
    /\ cp_held = [c \in CPCallers |-> {}]
    /\ cp_repeats = 0

\* a pool to which the application has released k connections it had opened
\* itself (hev_connection_pool_release, the path of a descriptor found in no slot)
CPInitWarm ==
    \E k \in 0 .. CPSize :
        /\ cp_conns = [i \in CPSlots |->
                          IF i < k
                          THEN [fd |-> i + 1, in_use |-> FALSE, last_used |-> 0, use_count |-> 1]
                          ELSE [fd |-> -1, in_use |-> FALSE, last_used |-> 0, use_count |-> 0]]
        /\ cp_open = 1 .. k
        /\ cp_dest = [f \in CPFds |-> IF f <= k THEN 1 ELSE 0]
        /\ cp_alive = [f \in CPFds |-> f <= k]
        /\ cp_total_requests = 0
        /\ cp_cache_hits = 0
        /\ cp_cache_misses = 0
        /\ cp_evictions = 0
        /\ cp_now = 0
        /\ cp_pc = [c \in CPCallers |-> "idle"]
        /\ cp_loc = [c \in CPCallers |-> CPNoLoc]
        /\ cp_held = [c \in CPCallers |-> {}]
        /\ cp_repeats = 0

\* mutant: the scan of get does not look at the idle time
CPReusableNoExpiry(conn, now) ==
    /\ conn.fd >= 0
    /\ ~conn.in_use

\* mutant: the scan of get does not look at in_use
CPReusableInUse(conn, now) ==
    /\ conn.fd >= 0
    /\ (now - conn.last_used) < CONN_IDLE_TIMEOUT

\* the test of the scan of get: an open, idle slot that has not expired
CPReusable(conn, now) ==
    /\ conn.fd >= 0
    /\ ~conn.in_use
    /\ (now - conn.last_used) < CONN_IDLE_TIMEOUT

\* mutant: the scan stops at the first slot whose probe fails (break for continue)
RECURSIVE CPGetScanStopsAtDead(_, _, _, _, _)
CPGetScanStopsAtDead(i, conns, open, evictions, now) ==
    IF i >= CPSize
    THEN [conns |-> conns, open |-> open, evictions |-> evictions, fd |-> -1]
    ELSE IF ~CPReusable(conns[i], now)
    THEN CPGetScanStopsAtDead(i + 1, conns, open, evictions, now)
    ELSE IF ~cp_alive[conns[i].fd]
    THEN [conns |-> [conns EXCEPT ![i].fd = -1], open |-> open \ {conns[i].fd},
          evictions |-> evictions + 1, fd |-> -1]
    ELSE [conns |-> [conns EXCEPT ![i].in_use = TRUE, ![i].last_used = now,
                                  ![i].use_count = @ + 1],
          open |-> open, evictions |-> evictions, fd |-> conns[i].fd]

\* the for loop of hev_connection_pool_get from slot i on: a slot whose probe fails
\* is closed and counted, the first live one is taken
RECURSIVE CPGetScan(_, _, _, _, _)
CPGetScan(i, conns, open, evictions, now) ==
    IF i >= CPSize
    THEN [conns |-> conns, open |-> open, evictions |-> evictions, fd |-> -1]
    ELSE IF ~CPReusable(conns[i], now)
    THEN CPGetScan(i + 1, conns, open, evictions, now)
    ELSE IF ~cp_alive[conns[i].fd]
    THEN CPGetScan(i + 1, [conns EXCEPT ![i].fd = -1], open \ {conns[i].fd},
                   evictions + 1, now)
    ELSE [conns |-> [conns EXCEPT ![i].in_use = TRUE, ![i].last_used = now,
                                  ![i].use_count = @ + 1],
          open |-> open, evictions |-> evictions, fd |-> conns[i].fd]

\* the descriptors in closed drop their connection
CPForget(f, closed) == [x \in CPFds |-> IF x \in closed THEN 0 ELSE f[x]]

CPForgetAlive(f, closed) == [x \in CPFds |-> IF x \in closed THEN FALSE ELSE f[x]]

\* hev_connection_pool_get, the locked part: total_requests++, the scan, and on a
\* hit cache_hits++ and return of the fd
CPGetCall(c, dest) ==
    /\ cp_pc[c] = "idle"
    /\ cp_total_requests < CPMaxGets
    /\ cp_total_requests' = cp_total_requests + 1
    /\ LET r == CPGetScan(0, cp_conns, cp_open, cp_evictions, cp_now)
           closed == cp_open \ r.open
       IN  /\ cp_conns' = r.conns
           /\ cp_open' = r.open
           /\ cp_evictions' = r.evictions
           /\ cp_dest' = CPForget(cp_dest, closed)
           /\ cp_alive' = CPForgetAlive(cp_alive, closed)
           /\ IF r.fd >= 0
              THEN /\ cp_cache_hits' = cp_cache_hits + 1
                   /\ cp_held' = [cp_held EXCEPT ![c] = @ \cup {r.fd}]
                   /\ UNCHANGED <<cp_pc, cp_loc>>
              ELSE /\ cp_pc' = [cp_pc EXCEPT ![c] = "g_socket"]
                   /\ cp_loc' = [cp_loc EXCEPT ![c] = [fd |-> -1, dest |-> dest]]
                   /\ UNCHANGED <<cp_cache_hits, cp_held>>
    /\ UNCHANGED <<cp_cache_misses, cp_now>>

\* fd = socket(AF_INET, SOCK_STREAM, 0) succeeds
CPGetSocketOk(c) ==
    /\ cp_pc[c] = "g_socket"
    /\ cp_open # CPFds
    /\ LET fd == CPLowestFree(cp_open)
       IN  /\ cp_open' = cp_open \cup {fd}
           /\ cp_loc' = [cp_loc EXCEPT ![c].fd = fd]
    /\ cp_pc' = [cp_pc EXCEPT ![c] = "g_connect"]
    /\ UNCHANGED <<cp_conns, cp_total_requests, cp_cache_hits, cp_cache_misses,
                   cp_evictions, cp_now, cp_dest, cp_alive, cp_held>>

\* socket() fails (descriptor table full, no memory): return -1
CPGetSocketFail(c) ==
    /\ cp_pc[c] = "g_socket"
    /\ cp_pc' = [cp_pc EXCEPT ![c] = "idle"]
    /\ cp_loc' = [cp_loc EXCEPT ![c] = CPNoLoc]
    /\ UNCHANGED <<cp_conns, cp_total_requests, cp_cache_hits, cp_cache_misses,
                   cp_evictions, cp_now, cp_open, cp_dest, cp_alive, cp_held>>

\* connect() returns 0 or fails with EINPROGRESS
CPGetConnectOk(c) ==
    /\ cp_pc[c] = "g_connect"
    /\ cp_dest' = [cp_dest EXCEPT ![cp_loc[c].fd] = cp_loc[c].dest]
    /\ cp_alive' = [cp_alive EXCEPT ![cp_loc[c].fd] = TRUE]
    /\ cp_pc' = [cp_pc EXCEPT ![c] = "g_miss"]
    /\ UNCHANGED <<cp_conns, cp_total_requests, cp_cache_hits, cp_cache_misses,
                   cp_evictions, cp_now, cp_open, cp_loc, cp_held>>

\* connect() fails with another error: close(fd); return -1
CPGetConnectFail(c) ==
    /\ cp_pc[c] = "g_connect"
    /\ cp_open' = cp_open \ {cp_loc[c].fd}
    /\ cp_pc' = [cp_pc EXCEPT ![c] = "idle"]
    /\ cp_loc' = [cp_loc EXCEPT ![c] = CPNoLoc]
    /\ UNCHANGED <<cp_conns, cp_total_requests, cp_cache_hits, cp_cache_misses,
                   cp_evictions, cp_now, cp_dest, cp_alive, cp_held>>

\* lock; cache_misses++; unlock; return fd
CPGetMiss(c) ==
    /\ cp_pc[c] = "g_miss"
    /\ cp_cache_misses' = cp_cache_misses + 1
    /\ cp_held' = [cp_held EXCEPT ![c] = @ \cup {cp_loc[c].fd}]
    /\ cp_pc' = [cp_pc EXCEPT ![c] = "idle"]
    /\ cp_loc' = [cp_loc EXCEPT ![c] = CPNoLoc]
    /\ UNCHANGED <<cp_conns, cp_total_requests, cp_cache_hits, cp_evictions, cp_now,
                   cp_open, cp_dest, cp_alive>>

\* the first slot of a set of slots (a for loop that breaks at its first match), or -1
CPFirstSlot(S) ==
    IF S = {} THEN -1 ELSE CHOOSE i \in S : \A j \in S : i <= j

\* mutant: release does not look for the descriptor among the slots
CPReleaseNoFind(c, fd) ==
    /\ cp_pc[c] = "idle"
    /\ fd \in cp_held[c]
    /\ cp_held' = [cp_held EXCEPT ![c] = @ \ {fd}]
    /\ LET empty == CPFirstSlot({i \in CPSlots : cp_conns[i].fd < 0})
       IN  IF empty >= 0
           THEN /\ cp_conns' = [cp_conns EXCEPT ![empty] =
                                    [fd |-> fd, in_use |-> FALSE, last_used |-> cp_now,
                                     use_count |-> 1]]
                /\ UNCHANGED <<cp_open, cp_dest, cp_alive, cp_evictions>>
           ELSE /\ cp_open' = cp_open \ {fd}
                /\ cp_dest' = CPForget(cp_dest, {fd})
                /\ cp_alive' = CPForgetAlive(cp_alive, {fd})
                /\ cp_evictions' = cp_evictions + 1
                /\ UNCHANGED cp_conns
    /\ UNCHANGED <<cp_total_requests, cp_cache_hits, cp_cache_misses, cp_now, cp_pc,
                   cp_loc>>

\* hev_connection_pool_release of a descriptor the caller got from get
CPRelease(c, fd) ==
    /\ cp_pc[c] = "idle"
    /\ fd \in cp_held[c]
    /\ cp_held' = [cp_held EXCEPT ![c] = @ \ {fd}]
    /\ LET found == CPFirstSlot({i \in CPSlots : cp_conns[i].fd = fd})
           empty == CPFirstSlot({i \in CPSlots : cp_conns[i].fd < 0})
       IN  IF found >= 0
           THEN /\ cp_conns' = [cp_conns EXCEPT ![found].in_use = FALSE,
                                                ![found].last_used = cp_now]
                /\ UNCHANGED <<cp_open, cp_dest, cp_alive, cp_evictions>>
           ELSE IF empty >= 0
           THEN /\ cp_conns' = [cp_conns EXCEPT ![empty] =
                                    [fd |-> fd, in_use |-> FALSE, last_used |-> cp_now,
                                     use_count |-> 1]]
                /\ UNCHANGED <<cp_open, cp_dest, cp_alive, cp_evictions>>
           ELSE /\ cp_open' = cp_open \ {fd}
                /\ cp_dest' = CPForget(cp_dest, {fd})
                /\ cp_alive' = CPForgetAlive(cp_alive, {fd})
                /\ cp_evictions' = cp_evictions + 1
                /\ UNCHANGED cp_conns
    /\ UNCHANGED <<cp_total_requests, cp_cache_hits, cp_cache_misses, cp_now, cp_pc,
                   cp_loc>>

\* hev_connection_pool_remove of a descriptor the caller got from get
CPRemove(c, fd) ==
    /\ cp_pc[c] = "idle"
    /\ fd \in cp_held[c]
    /\ cp_held' = [cp_held EXCEPT ![c] = @ \ {fd}]
    /\ LET found == CPFirstSlot({i \in CPSlots : cp_conns[i].fd = fd})
       IN  IF found >= 0
           THEN /\ cp_conns' = [cp_conns EXCEPT ![found].fd = -1, ![found].in_use = FALSE]
                /\ cp_open' = cp_open \ {fd}
                /\ cp_dest' = CPForget(cp_dest, {fd})
                /\ cp_alive' = CPForgetAlive(cp_alive, {fd})
                /\ cp_evictions' = cp_evictions + 1
           ELSE UNCHANGED <<cp_conns, cp_open, cp_dest, cp_alive, cp_evictions>>
    /\ UNCHANGED <<cp_total_requests, cp_cache_hits, cp_cache_misses, cp_now, cp_pc,
                   cp_loc>>

\* the test of hev_connection_pool_cleanup: an open, idle slot that has expired
CPExpired(conn, now) ==
    /\ conn.fd >= 0
    /\ ~conn.in_use
    /\ (now - conn.last_used) >= CONN_IDLE_TIMEOUT

\* hev_connection_pool_cleanup
CPCleanup ==
    /\ \E i \in CPSlots : cp_conns[i].fd >= 0
    /\ LET gone == {i \in CPSlots : CPExpired(cp_conns[i], cp_now)}
           closed == {cp_conns[i].fd : i \in gone}
       IN  /\ cp_conns' = [i \in CPSlots |-> IF i \in gone
                                             THEN [cp_conns[i] EXCEPT !.fd = -1]
                                             ELSE cp_conns[i]]
           /\ cp_open' = cp_open \ closed
           /\ cp_dest' = CPForget(cp_dest, closed)
           /\ cp_alive' = CPForgetAlive(cp_alive, closed)
           /\ cp_evictions' = cp_evictions + Cardinality(gone)
    /\ UNCHANGED <<cp_total_requests, cp_cache_hits, cp_cache_misses, cp_now, cp_pc,
                   cp_loc, cp_held>>

\* the clock of time(NULL) advances
CPTick ==
    /\ cp_now < CPTickStep * CPMaxTicks
    /\ cp_now' = cp_now + CPTickStep
    /\ UNCHANGED <<cp_conns, cp_total_requests, cp_cache_hits, cp_cache_misses,
                   cp_evictions, cp_open, cp_dest, cp_alive, cp_pc, cp_loc, cp_held>>

\* the peer of a pooled, idle connection closes it
CPPeerClose(fd) ==
    /\ fd \in cp_open
    /\ cp_alive[fd]
    /\ \E i \in CPSlots : cp_conns[i].fd = fd /\ ~cp_conns[i].in_use
    /\ cp_alive' = [cp_alive EXCEPT ![fd] = FALSE]
    /\ UNCHANGED <<cp_conns, cp_total_requests, cp_cache_hits, cp_cache_misses,
                   cp_evictions, cp_now, cp_open, cp_dest, cp_pc, cp_loc, cp_held>>

CPFrame == UNCHANGED <<mpVars, rbVars, tpVars, apVars, tnVars, ioVars, atVars, tcVars, cpMisuse>>

CPNext ==
    \/ \E c \in CPCallers, d \in CPDests : CPGetCall(c, d) /\ CPFrame
    \/ \E c \in CPCallers : CPGetSocketOk(c) /\ CPFrame
    \/ \E c \in CPCallers : CPGetSocketFail(c) /\ CPFrame
    \/ \E c \in CPCallers : CPGetConnectOk(c) /\ CPFrame
    \/ \E c \in CPCallers : CPGetConnectFail(c) /\ CPFrame
    \/ \E c \in CPCallers : CPGetMiss(c) /\ CPFrame
    \/ \E c \in CPCallers, fd \in CPFds : CPRelease(c, fd) /\ CPFrame
    \/ \E c \in CPCallers, fd \in CPFds : CPRemove(c, fd) /\ CPFrame
    \/ CPCleanup /\ CPFrame
    \/ CPTick /\ CPFrame
    \/ \E fd \in CPFds : CPPeerClose(fd) /\ CPFrame


(***************************************************************************)
(* Tunnel orchestrator (hev-socks5-tunnel.c) with the reader threads of    *)
(* hev-tunnel-io.c.  lwip_mutex and io->callback_mutex are default         *)
(* (non-recursive) mutexes, modelled by their owner.  The stack runs the   *)
(* handlers installed by gateway_init in the thread that calls input.      *)
(***************************************************************************)

\* io->num_readers on a machine with four or more processors
TNReaderCount == 2

TNReaders == 1 .. TNReaderCount

\* the identity of timer_thread
TNTimerTid == TNReaderCount + 1

\* hev_socks5_tunnel_init has returned 0: the callback is installed, nothing runs
TNInit ==
    /\ tn_run = 0
    /\ tn_io_running = 0
    /\ tn_lwip_mutex = 0
    /\ tn_callback_mutex = 0
    /\ tn_rpc = [r \in TNReaders |-> "none"]
    /\ tn_kind = [r \in TNReaders |-> "none"]
    /\ tn_rsess = [r \in TNReaders |-> 0]
    /\ tn_tpc = "none"
    /\ tn_mpc = "init"
    /\ tn_spc = "idle"
    /\ tn_session_list = <<>>
    /\ tn_session_count = 0
    /\ tn_tasks = {}
    /\ tn_next_session = 1
    /\ tn_packets = 0
    /\ tn_ret = <<>>

\* pthread_mutex_unlock(&lwip_mutex) by thread t: the owner releases it; a thread
\* that is not the owner leaves it as it is or releases it for the owner
TNUnlockOutcomes(t) ==
    IF tn_lwip_mutex = t \/ tn_lwip_mutex = 0 THEN {0} ELSE {0, tn_lwip_mutex}

\* remove_session: unlink the first node that holds the session
RECURSIVE TNRemoveFirst(_, _)
TNRemoveFirst(list, session) ==
    IF list = <<>> THEN <<>>
    ELSE IF Head(list) = session THEN Tail(list)
    ELSE <<Head(list)>> \o TNRemoveFirst(Tail(list), session)

TNInList(list, session) == \E i \in 1 .. Len(list) : list[i] = session

\* hev_socks5_tunnel_run: run = 1; pthread_create(&timer_thread, ...) starts the
\* timer thread, or fails and run returns -1
TNRunBegin(ok) ==
    /\ tn_mpc = "init"
    /\ tn_run' = 1
    /\ IF ok
       THEN tn_tpc' = "t_loop" /\ tn_mpc' = "io_start" /\ UNCHANGED tn_ret
       ELSE tn_mpc' = "returned" /\ tn_ret' = <<-1>> /\ UNCHANGED tn_tpc
    /\ UNCHANGED <<tn_io_running, tn_lwip_mutex, tn_callback_mutex, tn_rpc, tn_kind,
                   tn_rsess, tn_spc, tn_session_list, tn_session_count, tn_tasks,
                   tn_next_session, tn_packets>>

\* hev_tunnel_io_start: io->running = 1 and the threads are created; or a
\* pthread_create fails after k readers were created, io->running = 0 again, and
\* hev_socks5_tunnel_run clears run and goes to join the timer thread
TNRunIoStart(ok, k) ==
    /\ tn_mpc = "io_start"
    /\ ok => k = TNReaderCount
    /\ tn_io_running' = IF ok THEN 1 ELSE 0
    /\ tn_rpc' = [r \in TNReaders |-> IF r <= k THEN "r_loop" ELSE "none"]
    /\ tn_run' = IF ok THEN tn_run ELSE 0
    /\ tn_mpc' = IF ok THEN "join" ELSE "fail_join"
    /\ UNCHANGED <<tn_lwip_mutex, tn_callback_mutex, tn_kind, tn_rsess, tn_tpc,
                   tn_spc, tn_session_list, tn_session_count, tn_tasks, tn_next_session,
                   tn_packets, tn_ret>>

\* hev_socks5_tunnel_run: pthread_join(timer_thread) returns; return 0, or -1 on
\* the path of the failed start
TNRunReturn ==
    /\ tn_mpc \in {"join", "fail_join"}
    /\ tn_tpc = "exited"
    /\ tn_mpc' = "returned"
    /\ tn_ret' = IF tn_mpc = "join" THEN <<0>> ELSE <<-1>>
    /\ UNCHANGED <<tn_run, tn_io_running, tn_lwip_mutex, tn_callback_mutex, tn_rpc,
                   tn_kind, tn_rsess, tn_tpc, tn_spc, tn_session_list, tn_session_count,
                   tn_tasks, tn_next_session, tn_packets>>

\* hev_socks5_tunnel_stop: run = 0
TNStopBegin ==
    /\ tn_spc = "idle"
    /\ tn_mpc \in {"join", "returned"}
    /\ tn_run' = 0
    /\ tn_spc' = "s_io"
    /\ UNCHANGED tn_ret
    /\ UNCHANGED <<tn_io_running, tn_lwip_mutex, tn_callback_mutex, tn_rpc, tn_kind,
                   tn_rsess, tn_tpc, tn_mpc, tn_session_list, tn_session_count, tn_tasks,
                   tn_next_session, tn_packets>>

\* hev_tunnel_io_stop: if (!io->running) return; io->running = 0
TNStopIo ==
    /\ tn_spc = "s_io"
    /\ tn_io_running' = 0
    /\ tn_spc' = IF tn_io_running = 0 THEN "done" ELSE "s_join"
    /\ UNCHANGED tn_ret
    /\ UNCHANGED <<tn_run, tn_lwip_mutex, tn_callback_mutex, tn_rpc, tn_kind, tn_rsess,
                   tn_tpc, tn_mpc, tn_session_list, tn_session_count, tn_tasks,
                   tn_next_session, tn_packets>>

\* hev_tunnel_io_stop: every pthread_join of a reader thread has returned
TNStopJoin ==
    /\ tn_spc = "s_join"
    /\ \A r \in TNReaders : tn_rpc[r] = "exited"
    /\ tn_spc' = "done"
    /\ UNCHANGED tn_ret
    /\ UNCHANGED <<tn_run, tn_io_running, tn_lwip_mutex, tn_callback_mutex, tn_rpc,
                   tn_kind, tn_rsess, tn_tpc, tn_mpc, tn_session_list, tn_session_count,
                   tn_tasks, tn_next_session, tn_packets>>

\* timer_thread_func: while (run) { usleep(...)
TNTimerLoop ==
    /\ tn_tpc = "t_loop"
    /\ tn_tpc' = IF tn_run = 1 THEN "t_lock" ELSE "exited"
    /\ UNCHANGED tn_ret
    /\ UNCHANGED <<tn_run, tn_io_running, tn_lwip_mutex, tn_callback_mutex, tn_rpc,
                   tn_kind, tn_rsess, tn_mpc, tn_spc, tn_session_list, tn_session_count,
                   tn_tasks, tn_next_session, tn_packets>>

\* timer_thread_func: pthread_mutex_lock(&lwip_mutex)
TNTimerLock ==
    /\ tn_tpc = "t_lock"
    /\ tn_lwip_mutex = 0
    /\ tn_lwip_mutex' = TNTimerTid
    /\ tn_tpc' = "t_tick"
    /\ UNCHANGED tn_ret
    /\ UNCHANGED <<tn_run, tn_io_running, tn_callback_mutex, tn_rpc, tn_kind, tn_rsess,
                   tn_mpc, tn_spc, tn_session_list, tn_session_count, tn_tasks,
                   tn_next_session, tn_packets>>

\* timer_thread_func: tcp_tmr() and the other ticks; pthread_mutex_unlock(&lwip_mutex)
TNTimerTick ==
    /\ tn_tpc = "t_tick"
    /\ tn_lwip_mutex' \in TNUnlockOutcomes(TNTimerTid)
    /\ tn_tpc' = "t_loop"
    /\ UNCHANGED tn_ret
    /\ UNCHANGED <<tn_run, tn_io_running, tn_callback_mutex, tn_rpc, tn_kind, tn_rsess,
                   tn_mpc, tn_spc, tn_session_list, tn_session_count, tn_tasks,
                   tn_next_session, tn_packets>>


\* reader_thread: while (io->running) fails, the thread returns
TNReaderExit(r) ==
    /\ tn_rpc[r] = "r_loop"
    /\ tn_io_running = 0
    /\ tn_rpc' = [tn_rpc EXCEPT ![r] = "exited"]
    /\ UNCHANGED tn_ret
    /\ UNCHANGED <<tn_run, tn_io_running, tn_lwip_mutex, tn_callback_mutex, tn_kind,
                   tn_rsess, tn_tpc, tn_mpc, tn_spc, tn_session_list, tn_session_count,
                   tn_tasks, tn_next_session, tn_packets>>

\* reader_thread: read() returns a packet, the pbuf is filled, the counters are bumped
TNReaderRead(r) ==
    /\ tn_rpc[r] = "r_loop"
    /\ tn_io_running = 1
    /\ tn_packets < TNMaxPackets
    /\ tn_packets' = tn_packets + 1
    /\ tn_rpc' = [tn_rpc EXCEPT ![r] = "r_cb_lock"]
    /\ UNCHANGED tn_ret
    /\ UNCHANGED <<tn_run, tn_io_running, tn_lwip_mutex, tn_callback_mutex, tn_kind,
                   tn_rsess, tn_tpc, tn_mpc, tn_spc, tn_session_list, tn_session_count,
                   tn_tasks, tn_next_session>>

\* reader_thread: pthread_mutex_lock(&io->callback_mutex); io->read_callback(pbuf, ...)
TNReaderCallbackLock(r) ==
    /\ tn_rpc[r] = "r_cb_lock"
    /\ tn_callback_mutex = 0
    /\ tn_callback_mutex' = r
    /\ tn_rpc' = [tn_rpc EXCEPT ![r] = "c_lock"]
    /\ UNCHANGED tn_ret
    /\ UNCHANGED <<tn_run, tn_io_running, tn_lwip_mutex, tn_kind, tn_rsess, tn_tpc,
                   tn_mpc, tn_spc, tn_session_list, tn_session_count, tn_tasks,
                   tn_next_session, tn_packets>>

\* packet_read_callback: pthread_mutex_lock(&lwip_mutex)
TNCallbackLock(r) ==
    /\ tn_rpc[r] = "c_lock"
    /\ tn_lwip_mutex = 0
    /\ tn_lwip_mutex' = r
    /\ tn_rpc' = [tn_rpc EXCEPT ![r] = "c_input"]
    /\ UNCHANGED tn_ret
    /\ UNCHANGED <<tn_run, tn_io_running, tn_callback_mutex, tn_kind, tn_rsess, tn_tpc,
                   tn_mpc, tn_spc, tn_session_list, tn_session_count, tn_tasks,
                   tn_next_session, tn_packets>>

\* netif.input(p, &netif): the packet opens no connection, or the accept handler is
\* called with an error and returns it
TNInputPlain(r) ==
    /\ tn_rpc[r] = "c_input"
    /\ tn_rpc' = [tn_rpc EXCEPT ![r] = "c_unlock"]
    /\ UNCHANGED tn_ret
    /\ UNCHANGED <<tn_run, tn_io_running, tn_lwip_mutex, tn_callback_mutex, tn_kind,
                   tn_rsess, tn_tpc, tn_mpc, tn_spc, tn_session_list, tn_session_count,
                   tn_tasks, tn_next_session, tn_packets>>

\* netif.input(p, &netif): the stack calls tcp_accept_handler (kind "tcp") or
\* udp_recv_handler for a session ("udp") or for a mapped-DNS query ("dns")
TNInputHandler(r, kind) ==
    /\ tn_rpc[r] = "c_input"
    /\ tn_kind' = [tn_kind EXCEPT ![r] = kind]
    /\ tn_rpc' = [tn_rpc EXCEPT ![r] = "h_entry"]
    /\ UNCHANGED tn_ret
    /\ UNCHANGED <<tn_run, tn_io_running, tn_lwip_mutex, tn_callback_mutex, tn_rsess,
                   tn_tpc, tn_mpc, tn_spc, tn_session_list, tn_session_count, tn_tasks,
                   tn_next_session, tn_packets>>

\* tcp_accept_handler / udp_recv_handler: if (!run) return
TNHandlerEntry(r) ==
    /\ tn_rpc[r] = "h_entry"
    /\ IF tn_run = 0
       THEN /\ tn_rpc' = [tn_rpc EXCEPT ![r] = "c_unlock"]
            /\ tn_kind' = [tn_kind EXCEPT ![r] = "none"]
       ELSE /\ tn_rpc' = [tn_rpc EXCEPT ![r] = "h_lock"]
            /\ UNCHANGED tn_kind
    /\ UNCHANGED tn_ret
    /\ UNCHANGED <<tn_run, tn_io_running, tn_lwip_mutex, tn_callback_mutex, tn_rsess,
                   tn_tpc, tn_mpc, tn_spc, tn_session_list, tn_session_count, tn_tasks,
                   tn_next_session, tn_packets>>

\* the handler's pthread_mutex_lock(&lwip_mutex) finds the mutex free and takes it
TNHandlerLock(r) ==
    /\ tn_rpc[r] = "h_lock"
    /\ tn_lwip_mutex = 0
    /\ tn_lwip_mutex' = r
    /\ tn_rpc' = [tn_rpc EXCEPT ![r] = IF tn_kind[r] = "dns" THEN "d_unlock" ELSE "h_new"]
    /\ UNCHANGED tn_ret
    /\ UNCHANGED <<tn_run, tn_io_running, tn_callback_mutex, tn_kind, tn_rsess, tn_tpc,
                   tn_mpc, tn_spc, tn_session_list, tn_session_count, tn_tasks,
                   tn_next_session, tn_packets>>

\* the handler's pthread_mutex_lock(&lwip_mutex) in the thread that holds the mutex:
\* undefined for a default mutex.  The call never returns (no step), or it returns
\* an error the handler does not look at (this step).
TNHandlerRelockReturns(r) ==
    /\ tn_rpc[r] = "h_lock"
    /\ tn_lwip_mutex = r
    /\ tn_rpc' = [tn_rpc EXCEPT ![r] = IF tn_kind[r] = "dns" THEN "d_unlock" ELSE "h_new"]
    /\ UNCHANGED tn_ret
    /\ UNCHANGED <<tn_run, tn_io_running, tn_lwip_mutex, tn_callback_mutex, tn_kind,
                   tn_rsess, tn_tpc, tn_mpc, tn_spc, tn_session_list, tn_session_count,
                   tn_tasks, tn_next_session, tn_packets>>

\* udp_recv_handler, mapped DNS: hev_mapped_dns_handle, udp_sendfrom, unlock, return
TNDnsUnlock(r) ==
    /\ tn_rpc[r] = "d_unlock"
    /\ tn_lwip_mutex' \in TNUnlockOutcomes(r)
    /\ tn_kind' = [tn_kind EXCEPT ![r] = "none"]
    /\ tn_rpc' = [tn_rpc EXCEPT ![r] = "c_unlock"]
    /\ UNCHANGED tn_ret
    /\ UNCHANGED <<tn_run, tn_io_running, tn_callback_mutex, tn_rsess, tn_tpc, tn_mpc,
                   tn_spc, tn_session_list, tn_session_count, tn_tasks, tn_next_session,
                   tn_packets>>

\* the handler: session = hev_socks5_session_*_new(...); unlock; the session or the
\* task descriptor may fail to allocate, and the handler returns
TNHandlerNew(r, ok) ==
    /\ tn_rpc[r] = "h_new"
    /\ tn_lwip_mutex' \in TNUnlockOutcomes(r)
    /\ IF ok /\ tn_next_session <= TNMaxSessions
       THEN /\ tn_rsess' = [tn_rsess EXCEPT ![r] = tn_next_session]
            /\ tn_next_session' = tn_next_session + 1
            /\ tn_rpc' = [tn_rpc EXCEPT ![r] = "h_insert"]
            /\ UNCHANGED tn_kind
       ELSE /\ tn_rpc' = [tn_rpc EXCEPT ![r] = "c_unlock"]
            /\ tn_kind' = [tn_kind EXCEPT ![r] = "none"]
            /\ UNCHANGED <<tn_rsess, tn_next_session>>
    /\ UNCHANGED tn_ret
    /\ UNCHANGED <<tn_run, tn_io_running, tn_callback_mutex, tn_tpc, tn_mpc, tn_spc,
                   tn_session_list, tn_session_count, tn_tasks, tn_packets>>

\* insert_session: if (max_sessions > 0 && session_count > max_sessions)
TNSessionLimitExceeded(count) == TNMaxSessionCount > 0 /\ count > TNMaxSessionCount

\* insert_session: the node is linked at the tail and session_count is incremented
\* (ok), or malloc of the node fails and nothing is recorded; when the limit test
\* holds the function logs a warning and changes nothing
TNHandlerInsert(r, ok) ==
    /\ tn_rpc[r] = "h_insert"
    /\ IF ok
       THEN /\ tn_session_list' = Append(tn_session_list, tn_rsess[r])
            /\ tn_session_count' = tn_session_count + 1
       ELSE UNCHANGED <<tn_session_list, tn_session_count>>
    /\ tn_rpc' = [tn_rpc EXCEPT ![r] = "h_submit"]
    /\ UNCHANGED tn_ret
    /\ UNCHANGED <<tn_run, tn_io_running, tn_lwip_mutex, tn_callback_mutex, tn_kind,
                   tn_rsess, tn_tpc, tn_mpc, tn_spc, tn_tasks, tn_next_session,
                   tn_packets>>

\* hev_thread_pool_submit accepts the task (ok), or fails and the handler calls
\* remove_session
TNHandlerSubmit(r, ok) ==
    /\ tn_rpc[r] = "h_submit"
    /\ IF ok
       THEN /\ tn_tasks' = tn_tasks \cup {tn_rsess[r]}
            /\ UNCHANGED <<tn_session_list, tn_session_count>>
       ELSE /\ tn_session_list' = TNRemoveFirst(tn_session_list, tn_rsess[r])
            /\ tn_session_count' = IF TNInList(tn_session_list, tn_rsess[r])
                                   THEN tn_session_count - 1 ELSE tn_session_count
            /\ UNCHANGED tn_tasks
    /\ tn_rsess' = [tn_rsess EXCEPT ![r] = 0]
    /\ tn_kind' = [tn_kind EXCEPT ![r] = "none"]
    /\ tn_rpc' = [tn_rpc EXCEPT ![r] = "c_unlock"]
    /\ UNCHANGED tn_ret
    /\ UNCHANGED <<tn_run, tn_io_running, tn_lwip_mutex, tn_callback_mutex, tn_tpc,
                   tn_mpc, tn_spc, tn_next_session, tn_packets>>

\* session_task_wrapper on a worker: the session body returns; remove_session
TNSessionTask(session) ==
    /\ session \in tn_tasks
    /\ tn_tasks' = tn_tasks \ {session}
    /\ tn_session_list' = TNRemoveFirst(tn_session_list, session)
    /\ tn_session_count' = IF TNInList(tn_session_list, session)
                           THEN tn_session_count - 1 ELSE tn_session_count
    /\ UNCHANGED tn_ret
    /\ UNCHANGED <<tn_run, tn_io_running, tn_lwip_mutex, tn_callback_mutex, tn_rpc,
                   tn_kind, tn_rsess, tn_tpc, tn_mpc, tn_spc, tn_next_session,
                   tn_packets>>

\* packet_read_callback: input has returned; pthread_mutex_unlock(&lwip_mutex)
TNCallbackUnlock(r) ==
    /\ tn_rpc[r] = "c_unlock"
    /\ tn_lwip_mutex' \in TNUnlockOutcomes(r)
    /\ tn_rpc' = [tn_rpc EXCEPT ![r] = "r_cb_unlock"]
    /\ UNCHANGED tn_ret
    /\ UNCHANGED <<tn_run, tn_io_running, tn_callback_mutex, tn_kind, tn_rsess, tn_tpc,
                   tn_mpc, tn_spc, tn_session_list, tn_session_count, tn_tasks,
                   tn_next_session, tn_packets>>

\* reader_thread: pthread_mutex_unlock(&io->callback_mutex)
TNReaderCallbackUnlock(r) ==
    /\ tn_rpc[r] = "r_cb_unlock"
    /\ tn_callback_mutex' = 0
    /\ tn_rpc' = [tn_rpc EXCEPT ![r] = "r_loop"]
    /\ UNCHANGED tn_ret
    /\ UNCHANGED <<tn_run, tn_io_running, tn_lwip_mutex, tn_kind, tn_rsess, tn_tpc,
                   tn_mpc, tn_spc, tn_session_list, tn_session_count, tn_tasks,
                   tn_next_session, tn_packets>>

\* the identity of the thread that calls init, run and fini
TNMainTid == TNReaderCount + 2

\* hev_socks5_tunnel_fini after run has returned: hev_tunnel_io_destroy calls
\* hev_tunnel_io_stop, which returns at once if io->running is 0 and else clears
\* it and joins the readers
TNFiniIoDestroy ==
    /\ tn_mpc = "returned"
    /\ tn_io_running' = 0
    /\ tn_mpc' = IF tn_io_running = 0 THEN "f_pool" ELSE "f_io_join"
    /\ UNCHANGED tn_ret
    /\ UNCHANGED <<tn_run, tn_lwip_mutex, tn_callback_mutex, tn_rpc, tn_kind, tn_rsess,
                   tn_tpc, tn_spc, tn_session_list, tn_session_count, tn_tasks, tn_next_session, tn_packets>>

\* hev_tunnel_io_stop called by destroy: every pthread_join of a reader has returned
TNFiniIoJoin ==
    /\ tn_mpc = "f_io_join"
    /\ \A r \in TNReaders : tn_rpc[r] = "exited"
    /\ tn_mpc' = "f_pool"
    /\ UNCHANGED tn_ret
    /\ UNCHANGED <<tn_run, tn_io_running, tn_lwip_mutex, tn_callback_mutex, tn_rpc, tn_kind, tn_rsess,
                   tn_tpc, tn_spc, tn_session_list, tn_session_count, tn_tasks, tn_next_session, tn_packets>>

\* hev_thread_pool_destroy returns when the workers have run every queued session
\* task; mapped_dns_fini
TNFiniPool ==
    /\ tn_mpc = "f_pool"
    /\ tn_tasks = {}
    /\ tn_mpc' = "f_gateway_call"
    /\ UNCHANGED tn_ret
    /\ UNCHANGED <<tn_run, tn_io_running, tn_lwip_mutex, tn_callback_mutex, tn_rpc, tn_kind, tn_rsess,
                   tn_tpc, tn_spc, tn_session_list, tn_session_count, tn_tasks, tn_next_session, tn_packets>>

\* gateway_fini is entered: udp_remove, tcp_close, netif_remove; no lock is taken
TNFiniGatewayEnter ==
    /\ tn_mpc = "f_gateway_call"
    /\ tn_mpc' = "f_gateway"
    /\ UNCHANGED tn_ret
    /\ UNCHANGED <<tn_run, tn_io_running, tn_lwip_mutex, tn_callback_mutex, tn_rpc, tn_kind, tn_rsess,
                   tn_tpc, tn_spc, tn_session_list, tn_session_count, tn_tasks, tn_next_session, tn_packets>>

\* gateway_fini returns; tunnel_fini
TNFiniGatewayLeave ==
    /\ tn_mpc = "f_gateway"
    /\ tn_mpc' = "f_sessions"
    /\ UNCHANGED tn_ret
    /\ UNCHANGED <<tn_run, tn_io_running, tn_lwip_mutex, tn_callback_mutex, tn_rpc, tn_kind, tn_rsess,
                   tn_tpc, tn_spc, tn_session_list, tn_session_count, tn_tasks, tn_next_session, tn_packets>>

\* hev_socks5_tunnel_fini: the session list is freed under session_mutex and
\* session_count is set to 0
TNFiniSessions ==
    /\ tn_mpc = "f_sessions"
    /\ tn_session_list' = <<>>
    /\ tn_session_count' = 0
    /\ tn_mpc' = "finished"
    /\ UNCHANGED tn_ret
    /\ UNCHANGED <<tn_run, tn_io_running, tn_lwip_mutex, tn_callback_mutex, tn_rpc, tn_kind, tn_rsess,
                   tn_tpc, tn_spc, tn_tasks, tn_next_session, tn_packets>>

TNFrame == UNCHANGED <<mpVars, rbVars, tpVars, apVars, cpVars, ioVars, atVars, tcVars, cpMisuse>>

TNNext ==
    \/ \E ok \in BOOLEAN : TNRunBegin(ok) /\ TNFrame
    \/ \E ok \in BOOLEAN, k \in 0 .. TNReaderCount : TNRunIoStart(ok, k) /\ TNFrame
    \/ TNRunReturn /\ TNFrame
    \/ TNStopBegin /\ TNFrame
    \/ TNStopIo /\ TNFrame
    \/ TNStopJoin /\ TNFrame
    \/ TNTimerLoop /\ TNFrame
    \/ TNTimerLock /\ TNFrame
    \/ TNTimerTick /\ TNFrame
    \/ \E r \in TNReaders : TNReaderExit(r) /\ TNFrame
    \/ \E r \in TNReaders : TNReaderRead(r) /\ TNFrame
    \/ \E r \in TNReaders : TNReaderCallbackLock(r) /\ TNFrame
    \/ \E r \in TNReaders : TNCallbackLock(r) /\ TNFrame
    \/ \E r \in TNReaders : TNInputPlain(r) /\ TNFrame
    \/ \E r \in TNReaders, k \in {"tcp", "udp", "dns"} : TNInputHandler(r, k) /\ TNFrame
    \/ \E r \in TNReaders : TNHandlerEntry(r) /\ TNFrame
    \/ \E r \in TNReaders : TNHandlerLock(r) /\ TNFrame
    \/ \E r \in TNReaders : TNHandlerRelockReturns(r) /\ TNFrame
    \/ \E r \in TNReaders : TNDnsUnlock(r) /\ TNFrame
    \/ \E r \in TNReaders, ok \in BOOLEAN : TNHandlerNew(r, ok) /\ TNFrame
    \/ \E r \in TNReaders, ok \in BOOLEAN : TNHandlerInsert(r, ok) /\ TNFrame
    \/ \E r \in TNReaders, ok \in BOOLEAN : TNHandlerSubmit(r, ok) /\ TNFrame
    \/ \E x \in 1 .. TNMaxSessions : TNSessionTask(x) /\ TNFrame
    \/ \E r \in TNReaders : TNCallbackUnlock(r) /\ TNFrame
    \/ \E r \in TNReaders : TNReaderCallbackUnlock(r) /\ TNFrame
    \/ TNFiniIoDestroy /\ TNFrame
    \/ TNFiniIoJoin /\ TNFrame
    \/ TNFiniPool /\ TNFrame
    \/ TNFiniGatewayEnter /\ TNFrame
    \/ TNFiniGatewayLeave /\ TNFrame
    \/ TNFiniSessions /\ TNFrame


(***************************************************************************)
(* Tunnel I/O engine (hev-tunnel-io.c): reader threads, writer threads,    *)
(* the write queue, and the threads that enter the stack under lwip_mutex  *)
(* and make it send packets through netif_output_handler.  io->running and *)
(* io->write_queue_size are plain ints that the writer's loop test reads   *)
(* without the mutex: every such read is a step of its own.                *)
(***************************************************************************)

\* io->num_readers and io->num_writers on a machine with four or more processors;
\* with fewer processors both are 1
IONumReaders == 2

IONumWriters == 2

IOReaders == 1 .. IONumReaders

IOWriters == (IONumReaders + 1) .. (IONumReaders + IONumWriters)

\* the timer thread, the readers' input callback and the session workers
IOProducers == (IONumReaders + IONumWriters + 1) ..
                   (IONumReaders + IONumWriters + IOProducerCount)

IOPackets == 1 .. IOMaxWrites

\* the batch filled from the far end of the run it takes
IOTakeReversed(q, n) == [i \in 1 .. n |-> q[n + 1 - i]]

\* the first n elements of a sequence, and the rest
IOTake(q, n) == [i \in 1 .. n |-> q[i]]

IODrop(q, n) == [i \in 1 .. (Len(q) - n) |-> q[i + n]]

IOMin(a, b) == IF a <= b THEN a ELSE b

\* hev_tunnel_io_new has returned the engine: no thread runs, the queue is empty;
\* n is the number of readers and of writers it chose from the processor count
IONew(n) ==
    /\ io_running = 0
    /\ io_write_queue = <<>>
    /\ io_write_queue_size = 0
    /\ io_write_mutex = 0
    /\ io_lwip_mutex = 0
    /\ io_rpc = [r \in IOReaders |-> "none"]
    /\ io_wpc = [w \in IOWriters |-> "none"]
    /\ io_batch = [w \in IOWriters |-> <<>>]
    /\ io_tun = <<>>
    /\ io_ppc = [p \in IOProducers |-> "out"]
    /\ io_spc = "new"
    /\ io_join_i = 0
    /\ io_joined = <<>>
    /\ io_writes = 0
    /\ io_ref = [p \in IOPackets |-> 1]
    /\ io_freed = [p \in IOPackets |-> 0]
    /\ io_ret = <<>>
    /\ io_num_readers = n
    /\ io_num_writers = n

\* the engine of a machine with four or more processors
IOInit == IONew(IONumReaders)

\* the engine of any machine: num_cpus >= 4 gives 2 readers and 2 writers, less gives 1
IOInitAny == \E n \in {1, IONumReaders} : IONew(n)

\* hev_tunnel_io_start: running = 1, the readers and the writers are created
IOStart ==
    /\ io_spc = "new"
    /\ io_running = 0
    /\ io_running' = 1
    /\ io_rpc' = [r \in IOReaders |-> IF r <= io_num_readers THEN "r_loop" ELSE "none"]
    /\ io_wpc' = [w \in IOWriters |->
                     IF w - IONumReaders <= io_num_writers THEN "w_loop" ELSE "none"]
    /\ io_spc' = "started"
    /\ UNCHANGED <<ioAcct, ioConf>>
    /\ UNCHANGED <<io_write_queue, io_write_queue_size, io_write_mutex, io_lwip_mutex,
                   io_batch, io_tun, io_ppc, io_join_i, io_joined, io_writes>>

\* reader_thread: while (io->running)
IOReaderLoop(r) ==
    /\ io_rpc[r] = "r_loop"
    /\ io_rpc' = [io_rpc EXCEPT ![r] = IF io_running # 0 THEN "r_read" ELSE "exited"]
    /\ UNCHANGED <<ioAcct, ioConf>>
    /\ UNCHANGED <<io_running, io_write_queue, io_write_queue_size, io_write_mutex,
                   io_lwip_mutex, io_wpc, io_batch, io_tun, io_ppc, io_spc, io_join_i,
                   io_joined, io_writes>>

\* reader_thread: read() gives a packet (handed to the callback), nothing yet
\* (EAGAIN, EINTR, 0 bytes), or another error, which ends this reader
IOReaderRead(r, res) ==
    /\ io_rpc[r] = "r_read"
    /\ io_rpc' = [io_rpc EXCEPT ![r] = IF res = "error" THEN "exited" ELSE "r_loop"]
    /\ UNCHANGED <<ioAcct, ioConf>>
    /\ UNCHANGED <<io_running, io_write_queue, io_write_queue_size, io_write_mutex,
                   io_lwip_mutex, io_wpc, io_batch, io_tun, io_ppc, io_spc, io_join_i,
                   io_joined, io_writes>>

\* writer_thread: while (io->running || ...), the read of running
IOWriterLoop(w) ==
    /\ io_wpc[w] = "w_loop"
    /\ io_wpc' = [io_wpc EXCEPT ![w] = IF io_running # 0 THEN "w_lock" ELSE "w_loop_size"]
    /\ UNCHANGED <<ioAcct, ioConf>>
    /\ UNCHANGED <<io_running, io_write_queue, io_write_queue_size, io_write_mutex,
                   io_lwip_mutex, io_rpc, io_batch, io_tun, io_ppc, io_spc, io_join_i,
                   io_joined, io_writes>>

\* writer_thread: while (... || io->write_queue_size > 0), the read of the size
IOWriterLoopSize(w) ==
    /\ io_wpc[w] = "w_loop_size"
    /\ io_wpc' = [io_wpc EXCEPT ![w] = IF io_write_queue_size > 0 THEN "w_lock" ELSE "exited"]
    /\ UNCHANGED <<ioAcct, ioConf>>
    /\ UNCHANGED <<io_running, io_write_queue, io_write_queue_size, io_write_mutex,
                   io_lwip_mutex, io_rpc, io_batch, io_tun, io_ppc, io_spc, io_join_i,
                   io_joined, io_writes>>

\* pthread_mutex_lock (&io->write_mutex)
IOWriterLock(w) ==
    /\ io_wpc[w] = "w_lock"
    /\ io_write_mutex = 0
    /\ io_write_mutex' = w
    /\ io_wpc' = [io_wpc EXCEPT ![w] = "w_check"]
    /\ UNCHANGED <<ioAcct, ioConf>>
    /\ UNCHANGED <<io_running, io_write_queue, io_write_queue_size, io_lwip_mutex, io_rpc,
                   io_batch, io_tun, io_ppc, io_spc, io_join_i, io_joined, io_writes>>

\* the test of while (io->write_queue_size == 0 && io->running)
IOWriterMustWait == io_write_queue_size = 0 /\ io_running # 0

\* pthread_cond_timedwait releases the mutex
IOWriterWait(w) ==
    /\ io_wpc[w] = "w_check"
    /\ io_write_mutex = w
    /\ IOWriterMustWait
    /\ io_write_mutex' = 0
    /\ io_wpc' = [io_wpc EXCEPT ![w] = "w_waiting"]
    /\ UNCHANGED <<ioAcct, ioConf>>
    /\ UNCHANGED <<io_running, io_write_queue, io_write_queue_size, io_lwip_mutex, io_rpc,
                   io_batch, io_tun, io_ppc, io_spc, io_join_i, io_joined, io_writes>>

\* pthread_cond_timedwait returns (signal, broadcast or the 1 ms timeout) with the
\* mutex taken again
IOWriterWake(w) ==
    /\ io_wpc[w] = "w_waiting"
    /\ io_write_mutex = 0
    /\ io_write_mutex' = w
    /\ io_wpc' = [io_wpc EXCEPT ![w] = "w_check"]
    /\ UNCHANGED <<ioAcct, ioConf>>
    /\ UNCHANGED <<io_running, io_write_queue, io_write_queue_size, io_lwip_mutex, io_rpc,
                   io_batch, io_tun, io_ppc, io_spc, io_join_i, io_joined, io_writes>>

\* the batch is taken and the mutex is kept across the write loop
IOWriterTakeKeepsLock(w) ==
    /\ io_wpc[w] = "w_check"
    /\ io_write_mutex = w
    /\ ~IOWriterMustWait
    /\ LET n == IOMin(IOWriteBatchSize, Len(io_write_queue))
       IN  /\ io_batch' = [io_batch EXCEPT ![w] = IOTake(io_write_queue, n)]
           /\ io_write_queue' = IODrop(io_write_queue, n)
           /\ io_write_queue_size' = io_write_queue_size - n
           /\ io_wpc' = [io_wpc EXCEPT ![w] = IF n > 0 THEN "w_write" ELSE "w_loop"]
    /\ UNCHANGED <<ioAcct, ioConf>>
    /\ UNCHANGED <<io_running, io_write_mutex, io_lwip_mutex, io_rpc, io_tun, io_ppc,
                   io_spc, io_join_i, io_joined, io_writes>>

\* the batch loop: up to WRITE_BATCH_SIZE nodes leave the head of the queue; unlock
IOWriterTake(w) ==
    /\ io_wpc[w] = "w_check"
    /\ io_write_mutex = w
    /\ ~IOWriterMustWait
    /\ LET n == IOMin(IOWriteBatchSize, Len(io_write_queue))
       IN  /\ io_batch' = [io_batch EXCEPT ![w] = IOTake(io_write_queue, n)]
           /\ io_write_queue' = IODrop(io_write_queue, n)
           /\ io_write_queue_size' = io_write_queue_size - n
           /\ io_wpc' = [io_wpc EXCEPT ![w] = IF n > 0 THEN "w_write" ELSE "w_loop"]
    /\ io_write_mutex' = 0
    /\ UNCHANGED <<ioAcct, ioConf>>
    /\ UNCHANGED <<io_running, io_lwip_mutex, io_rpc, io_tun, io_ppc, io_spc, io_join_i,
                   io_joined, io_writes>>

\* the write loop frees the packet only when write () succeeded
IOWriterWriteLeaksOnError(w, ok) ==
    /\ io_wpc[w] = "w_write"
    /\ io_tun' = IF ok THEN Append(io_tun, Head(io_batch[w])) ELSE io_tun
    /\ io_ref' = IF ok THEN [io_ref EXCEPT ![Head(io_batch[w])] = @ - 1] ELSE io_ref
    /\ io_freed' = IF ok THEN [io_freed EXCEPT ![Head(io_batch[w])] = @ + 1] ELSE io_freed
    /\ io_batch' = [io_batch EXCEPT ![w] = Tail(@)]
    /\ io_wpc' = [io_wpc EXCEPT ![w] = IF Len(io_batch[w]) > 1 THEN "w_write" ELSE "w_loop"]
    /\ UNCHANGED <<io_running, io_write_queue, io_write_queue_size, io_write_mutex,
                   io_lwip_mutex, io_rpc, io_ppc, io_spc, io_join_i, io_joined, io_writes,
                   io_ret, ioConf>>

\* mutant: a failed write () ends the writer thread
IOWriterWriteExitsOnError(w, ok) ==
    /\ io_wpc[w] = "w_write"
    /\ io_tun' = IF ok THEN Append(io_tun, Head(io_batch[w])) ELSE io_tun
    /\ io_ref' = [io_ref EXCEPT ![Head(io_batch[w])] = @ - 1]
    /\ io_freed' = [io_freed EXCEPT ![Head(io_batch[w])] = @ + 1]
    /\ io_batch' = [io_batch EXCEPT ![w] = Tail(@)]
    /\ io_wpc' = [io_wpc EXCEPT ![w] = IF ~ok THEN "exited"
                                       ELSE IF Len(io_batch[w]) > 1 THEN "w_write" ELSE "w_loop"]
    /\ UNCHANGED <<io_running, io_write_queue, io_write_queue_size, io_write_mutex,
                   io_lwip_mutex, io_rpc, io_ppc, io_spc, io_join_i, io_joined, io_writes,
                   io_ret, ioConf>>

\* the write loop, one packet: write (io->tun_fd, ...) succeeds or fails (a chained
\* packet whose copy buffer cannot be allocated counts as failed); pbuf_free and
\* free (node) follow either way
IOWriterWrite(w, ok) ==
    /\ io_wpc[w] = "w_write"
    /\ io_tun' = IF ok THEN Append(io_tun, Head(io_batch[w])) ELSE io_tun
    /\ io_ref' = [io_ref EXCEPT ![Head(io_batch[w])] = @ - 1]
    /\ io_freed' = [io_freed EXCEPT ![Head(io_batch[w])] = @ + 1]
    /\ io_batch' = [io_batch EXCEPT ![w] = Tail(@)]
    /\ io_wpc' = [io_wpc EXCEPT ![w] = IF Len(io_batch[w]) > 1 THEN "w_write" ELSE "w_loop"]
    /\ UNCHANGED <<io_running, io_write_queue, io_write_queue_size, io_write_mutex,
                   io_lwip_mutex, io_rpc, io_ppc, io_spc, io_join_i, io_joined, io_writes,
                   io_ret, ioConf>>

\* a thread enters the stack: pthread_mutex_lock (&lwip_mutex)
IOStackEnter(p) ==
    /\ io_ppc[p] = "out"
    /\ io_lwip_mutex = 0
    /\ io_lwip_mutex' = p
    /\ io_ppc' = [io_ppc EXCEPT ![p] = "in"]
    /\ UNCHANGED <<ioAcct, ioConf>>
    /\ UNCHANGED <<io_running, io_write_queue, io_write_queue_size, io_write_mutex, io_rpc,
                   io_wpc, io_batch, io_tun, io_spc, io_join_i, io_joined, io_writes>>

\* the test of hev_tunnel_io_write: if (io->write_queue_size >= WRITE_QUEUE_SIZE)
IOQueueFull == io_write_queue_size >= IOWriteQueueSize

\* hev_tunnel_io_write whose full-queue path returns without pbuf_free
IOOutputFullKeepsRef(p) ==
    /\ io_ppc[p] = "in"
    /\ io_spc # "destroyed"
    /\ io_writes < IOMaxWrites
    /\ io_write_mutex = 0
    /\ io_writes' = io_writes + 1
    /\ io_ref' = [io_ref EXCEPT ![io_writes + 1] = @ + 1]
    /\ IF IOQueueFull
       THEN /\ io_ret' = Append(io_ret, -1)
            /\ UNCHANGED <<io_write_queue, io_write_queue_size>>
       ELSE /\ io_write_queue' = Append(io_write_queue, io_writes + 1)
            /\ io_write_queue_size' = io_write_queue_size + 1
            /\ io_ret' = Append(io_ret, 0)
    /\ UNCHANGED <<io_running, io_write_mutex, io_lwip_mutex, io_rpc, io_wpc, io_batch,
                   io_tun, io_ppc, io_spc, io_join_i, io_joined, io_freed, ioConf>>

\* the stack sends a packet: netif_output_handler calls hev_tunnel_io_write, which
\* takes a reference (pbuf_ref), locks write_mutex, and either finds the queue full
\* (unlock, pbuf_free, return -1) or appends the node at the tail, signals, unlocks
\* and returns 0
IOOutput(p) ==
    /\ io_ppc[p] = "in"
    /\ io_spc # "destroyed"
    /\ io_writes < IOMaxWrites
    /\ io_write_mutex = 0
    /\ io_writes' = io_writes + 1
    /\ IF IOQueueFull
       THEN /\ io_ref' = [io_ref EXCEPT ![io_writes + 1] = (@ + 1) - 1]
            /\ io_ret' = Append(io_ret, -1)
            /\ UNCHANGED <<io_write_queue, io_write_queue_size>>
       ELSE /\ io_ref' = [io_ref EXCEPT ![io_writes + 1] = @ + 1]
            /\ io_write_queue' = Append(io_write_queue, io_writes + 1)
            /\ io_write_queue_size' = io_write_queue_size + 1
            /\ io_ret' = Append(io_ret, 0)
    /\ UNCHANGED <<io_running, io_write_mutex, io_lwip_mutex, io_rpc, io_wpc, io_batch,
                   io_tun, io_ppc, io_spc, io_join_i, io_joined, io_freed, ioConf>>

\* the thread leaves the stack: pthread_mutex_unlock (&lwip_mutex)
IOStackLeave(p) ==
    /\ io_ppc[p] = "in"
    /\ io_lwip_mutex = p
    /\ io_lwip_mutex' = 0
    /\ io_ppc' = [io_ppc EXCEPT ![p] = "out"]
    /\ UNCHANGED <<ioAcct, ioConf>>
    /\ UNCHANGED <<io_running, io_write_queue, io_write_queue_size, io_write_mutex, io_rpc,
                   io_wpc, io_batch, io_tun, io_spc, io_join_i, io_joined, io_writes>>

\* hev_tunnel_io_stop: running = 0; pthread_cond_broadcast (a waiting writer
\* returns from its timed wait in any case)
IOStopBegin ==
    /\ io_spc = "started"
    /\ io_running # 0
    /\ io_running' = 0
    /\ io_spc' = "s_join_r"
    /\ io_join_i' = 0
    /\ UNCHANGED <<ioAcct, ioConf>>
    /\ UNCHANGED <<io_write_queue, io_write_queue_size, io_write_mutex, io_lwip_mutex,
                   io_rpc, io_wpc, io_batch, io_tun, io_ppc, io_joined, io_writes>>

\* for (i = 0; i < io->num_readers; i++) pthread_join (io->reader_threads[i], NULL)
IOStopJoinReader ==
    /\ io_spc = "s_join_r"
    /\ LET r == io_join_i + 1
       IN  /\ io_rpc[r] = "exited"
           /\ io_joined' = Append(io_joined, r)
    /\ IF io_join_i + 1 < io_num_readers
       THEN io_join_i' = io_join_i + 1 /\ UNCHANGED io_spc
       ELSE io_join_i' = 0 /\ io_spc' = "s_join_w"
    /\ UNCHANGED <<ioAcct, ioConf>>
    /\ UNCHANGED <<io_running, io_write_queue, io_write_queue_size, io_write_mutex,
                   io_lwip_mutex, io_rpc, io_wpc, io_batch, io_tun, io_ppc, io_writes>>

\* for (i = 0; i < io->num_writers; i++) pthread_join (io->writer_threads[i], NULL)
IOStopJoinWriter ==
    /\ io_spc = "s_join_w"
    /\ LET w == IONumReaders + io_join_i + 1
       IN  /\ io_wpc[w] = "exited"
           /\ io_joined' = Append(io_joined, w)
    /\ IF io_join_i + 1 < io_num_writers
       THEN io_join_i' = io_join_i + 1 /\ UNCHANGED io_spc
       ELSE io_join_i' = 0 /\ io_spc' = "stopped"
    /\ UNCHANGED <<ioAcct, ioConf>>
    /\ UNCHANGED <<io_running, io_write_queue, io_write_queue_size, io_write_mutex,
                   io_lwip_mutex, io_rpc, io_wpc, io_batch, io_tun, io_ppc, io_writes>>

\* the elements of a sequence
IORange(q) == {q[i] : i \in 1 .. Len(q)}

\* hev_tunnel_io_destroy after hev_tunnel_io_stop has returned (at once when the
\* engine never ran or hev_tunnel_io_start had failed, running being 0): every node still queued is taken off the head, its packet
\* gets pbuf_free and the node is freed; write_queue_size is left as it was
IODestroy ==
    /\ io_spc \in {"new", "stopped", "start_failed"}
    /\ io_write_mutex = 0
    /\ io_ref' = [p \in IOPackets |-> IF p \in IORange(io_write_queue)
                                         THEN io_ref[p] - 1 ELSE io_ref[p]]
    /\ io_freed' = [p \in IOPackets |-> IF p \in IORange(io_write_queue)
                                           THEN io_freed[p] + 1 ELSE io_freed[p]]
    /\ io_write_queue' = <<>>
    /\ io_spc' = "destroyed"
    /\ UNCHANGED <<io_running, io_write_queue_size, io_write_mutex, io_lwip_mutex, io_rpc,
                   io_wpc, io_batch, io_tun, io_ppc, io_join_i, io_joined, io_writes, io_ret,
                   ioConf>>

IOFrame == UNCHANGED <<mpVars, rbVars, tpVars, apVars, cpVars, tnVars, atVars, tcVars, cpMisuse>>

IONext ==
    \/ IOStart /\ IOFrame
    \/ \E r \in IOReaders : IOReaderLoop(r) /\ IOFrame
    \/ \E r \in IOReaders, res \in {"packet", "retry", "error"} : IOReaderRead(r, res) /\ IOFrame
    \/ \E w \in IOWriters : IOWriterLoop(w) /\ IOFrame
    \/ \E w \in IOWriters : IOWriterLoopSize(w) /\ IOFrame
    \/ \E w \in IOWriters : IOWriterLock(w) /\ IOFrame
    \/ \E w \in IOWriters : IOWriterWait(w) /\ IOFrame
    \/ \E w \in IOWriters : IOWriterWake(w) /\ IOFrame
    \/ \E w \in IOWriters : IOWriterTake(w) /\ IOFrame
    \/ \E w \in IOWriters, ok \in BOOLEAN : IOWriterWrite(w, ok) /\ IOFrame
    \/ \E p \in IOProducers : IOStackEnter(p) /\ IOFrame
    \/ \E p \in IOProducers : IOOutput(p) /\ IOFrame
    \/ \E p \in IOProducers : IOStackLeave(p) /\ IOFrame
    \/ IOStopBegin /\ IOFrame
    \/ IOStopJoinReader /\ IOFrame
    \/ IOStopJoinWriter /\ IOFrame
    \/ IODestroy /\ IOFrame

(***************************************************************************)
(* Adaptive worker pool under load, with time (hev-adaptive-pool.c).  One  *)
(* tick is half an adjustment interval.  A thread that can run does so     *)
(* before the clock moves: taking an item, finishing a task whose time is  *)
(* over and the adjuster's call at the end of its sleep take no time       *)
(* compared with a tick; their order within one instant is free.           *)
(***************************************************************************)

\* the configuration handed to hev_adaptive_pool_new, the interval in ticks,
\* with the number of tasks submitted and the ticks each task runs
ATConfig ==
    [min_threads |-> 2, max_threads |-> 8, scale_up_threshold |-> 10,
     scale_down_threshold |-> 6, adjustment_interval |-> 2, tasks |-> 50, task_ticks |-> 1]

\* the worker threads started so far
ATThreads == 1 .. Len(at_finish)

\* a worker that is inside worker_thread_func and not running a task
ATReady(w) == at_finish[w] = 0

\* a worker whose task ends at this instant
ATDue(w) == at_finish[w] > 0 /\ at_finish[w] = at_now

ATInit ==
    /\ at_now = 0
    /\ at_queue_depth = 0
    /\ at_current_threads = ATConfig.min_threads
    /\ at_finish = [w \in 1 .. ATConfig.min_threads |-> 0]
    /\ at_submitted = 0
    /\ at_executed = 0
    /\ at_apc = "sleep"
    /\ at_aloc = APNoALoc
    /\ at_next_adjust = ATConfig.adjustment_interval

\* hev_adaptive_pool_submit: push and signal
ATSubmit ==
    /\ at_now = 0
    /\ at_submitted < ATConfig.tasks
    /\ at_submitted' = at_submitted + 1
    /\ at_queue_depth' = at_queue_depth + 1
    /\ UNCHANGED <<at_now, at_current_threads, at_finish, at_executed, at_apc, at_aloc,
                   at_next_adjust>>

\* worker_thread_func: the queue is not empty; pop and start the task
ATWorkerTake(w) ==
    /\ ATReady(w)
    /\ at_queue_depth > 0
    /\ at_queue_depth' = at_queue_depth - 1
    /\ at_finish' = [at_finish EXCEPT ![w] = at_now + ATConfig.task_ticks]
    /\ UNCHANGED <<at_now, at_current_threads, at_submitted, at_executed, at_apc, at_aloc,
                   at_next_adjust>>

\* worker_thread_func: work->task (work->data) returns; back to the loop
ATWorkerFinish(w) ==
    /\ ATDue(w)
    /\ at_finish' = [at_finish EXCEPT ![w] = 0]
    /\ at_executed' = at_executed + 1
    /\ UNCHANGED <<at_now, at_queue_depth, at_current_threads, at_submitted, at_apc, at_aloc,
                   at_next_adjust>>

\* the values idle_threads can have: a worker counts as idle from its
\* atomic_fetch_add under the mutex to the atomic_fetch_sub after its wait loop;
\* with an empty queue every ready worker waits, otherwise at most the one
\* worker that holds the mutex is between the two
ATIdleValues ==
    LET ready == Cardinality({w \in ATThreads : ATReady(w)})
    IN  IF at_queue_depth = 0 THEN {ready} ELSE {0} \cup (IF ready > 0 THEN {1} ELSE {})

\* adjuster_thread_func: sleep is over; hev_adaptive_pool_adjust loads
\* queue_depth, idle and current
ATAdjustObserve ==
    /\ at_apc = "sleep"
    /\ at_now = at_next_adjust
    /\ \E idle \in ATIdleValues :
           at_aloc' = [head |-> 0, queue_depth |-> at_queue_depth, idle |-> idle,
                       current |-> at_current_threads]
    /\ at_apc' = "decide"
    /\ UNCHANGED <<at_now, at_queue_depth, at_current_threads, at_finish, at_submitted,
                   at_executed, at_next_adjust>>

\* mutant: the scale-up test does not look at the queue depth
ATScaleUpTestNoDepth(queue_depth, idle, current) ==
    /\ idle < APScaleUpIdleLimit
    /\ current < ATConfig.max_threads

\* the scale-up test of hev_adaptive_pool_adjust
ATScaleUpTest(queue_depth, idle, current) ==
    /\ queue_depth > ATConfig.scale_up_threshold
    /\ idle < APScaleUpIdleLimit
    /\ current < ATConfig.max_threads

\* the scale-down test of hev_adaptive_pool_adjust (the else-if branch)
ATScaleDownTest(queue_depth, idle, current) ==
    /\ idle > ATConfig.scale_down_threshold
    /\ queue_depth < APScaleDownQueueLimit
    /\ current > ATConfig.min_threads

\* hev_adaptive_pool_adjust after the loads: one more worker and current_threads
\* + 1, or current_threads - 1, or nothing; then the adjuster sleeps again
ATAdjustAct ==
    /\ at_apc = "decide"
    /\ IF ATScaleUpTest(at_aloc.queue_depth, at_aloc.idle, at_aloc.current)
       THEN /\ at_finish' = Append(at_finish, 0)
            /\ at_current_threads' = at_current_threads + 1
       ELSE IF ATScaleDownTest(at_aloc.queue_depth, at_aloc.idle, at_aloc.current)
       THEN /\ at_current_threads' = at_current_threads - 1
            /\ UNCHANGED at_finish
       ELSE UNCHANGED <<at_finish, at_current_threads>>
    /\ at_apc' = "sleep"
    /\ at_aloc' = APNoALoc
    /\ at_next_adjust' = at_now + ATConfig.adjustment_interval
    /\ UNCHANGED <<at_now, at_queue_depth, at_submitted, at_executed>>

\* half an interval passes: nothing is left to do at this instant
ATTick ==
    /\ at_now < ATHorizon
    /\ at_submitted = ATConfig.tasks
    /\ at_apc = "sleep"
    /\ at_now < at_next_adjust
    /\ \A w \in ATThreads : ~ATDue(w)
    /\ at_queue_depth > 0 => \A w \in ATThreads : ~ATReady(w)
    /\ at_now' = at_now + 1
    /\ UNCHANGED <<at_queue_depth, at_current_threads, at_finish, at_submitted, at_executed,
                   at_apc, at_aloc, at_next_adjust>>

ATFrame == UNCHANGED <<mpVars, rbVars, tpVars, apVars, cpVars, tnVars, ioVars, tcVars, cpMisuse>>

ATNext ==
    \/ ATSubmit /\ ATFrame
    \/ \E w \in ATThreads : ATWorkerTake(w) /\ ATFrame
    \/ \E w \in ATThreads : ATWorkerFinish(w) /\ ATFrame
    \/ ATAdjustObserve /\ ATFrame
    \/ ATAdjustAct /\ ATFrame
    \/ ATTick /\ ATFrame

(***************************************************************************)
(* Creation of the fixed worker pool (hev-thread-pool.c): the number of    *)
(* worker threads hev_thread_pool_new creates, from its argument and the   *)
(* processor count.                                                        *)
(***************************************************************************)

\* MIN_THREADS and MAX_THREADS
TCMinThreads == 2

TCMaxThreads == 64

\* get_cpu_count: the processor count, clamped to MIN_THREADS .. MAX_THREADS
TCGetCpuCount(cores) ==
    LET low == IF cores < TCMinThreads THEN TCMinThreads ELSE cores
    IN  IF low > TCMaxThreads THEN TCMaxThreads ELSE low

\* hev_thread_pool_new is about to be called with arg on a machine of that many
\* processors
TCNew(cores, arg) ==
    /\ tc_cores = cores
    /\ tc_arg = arg
    /\ tc_num_threads = arg
    /\ tc_i = 0
    /\ tc_pc = "call"

\* the orchestrator's call, hev_thread_pool_new (0), on a four-processor machine
TCInit == TCNew(4, 0)

TCInitAny == \E cores \in 1 .. TCMaxCores, arg \in 0 .. TCMaxArg : TCNew(cores, arg)

\* hev_thread_pool_new: if (num_threads <= 0) the count is detected, doubled and
\* capped at MAX_THREADS; pool->num_threads = num_threads
TCDetect ==
    /\ tc_pc = "call"
    /\ tc_num_threads' =
          IF tc_num_threads <= 0
          THEN LET doubled == TCGetCpuCount(tc_cores) * 2
               IN  IF doubled > TCMaxThreads THEN TCMaxThreads ELSE doubled
          ELSE tc_num_threads
    /\ tc_pc' = "create"
    /\ UNCHANGED <<tc_cores, tc_arg, tc_i>>

\* the creation loop, one pthread_create: it succeeds, or it fails and the pool is
\* destroyed with pool->num_threads = i
TCCreate(ok) ==
    /\ tc_pc = "create"
    /\ tc_i < tc_num_threads
    /\ IF ok
       THEN tc_i' = tc_i + 1 /\ UNCHANGED <<tc_num_threads, tc_pc>>
       ELSE tc_num_threads' = tc_i /\ tc_pc' = "failed" /\ UNCHANGED tc_i
    /\ UNCHANGED <<tc_cores, tc_arg>>

\* the loop ends, hev_thread_pool_new returns the pool
TCReturn ==
    /\ tc_pc = "create"
    /\ ~(tc_i < tc_num_threads)
    /\ tc_pc' = "done"
    /\ UNCHANGED <<tc_cores, tc_arg, tc_num_threads, tc_i>>

TCFrame == UNCHANGED <<mpVars, rbVars, tpVars, apVars, cpVars, tnVars, ioVars, atVars, cpMisuse>>

TCNext ==
    \/ TCDetect /\ TCFrame
    \/ \E ok \in BOOLEAN : TCCreate(ok) /\ TCFrame
    \/ TCReturn /\ TCFrame


Init == MPInit /\ RBInit /\ TPInit /\ APInit /\ CPInit /\ TNInit /\ IOInit /\ ATInit /\ TCInit

SpecMP == Init /\ [][MPNext]_vars

SpecMPMisuse == Init /\ [][MPMisuseNext]_vars

SpecRB == Init /\ [][RBNext]_vars

SpecTP == Init /\ [][TPNext]_vars

SpecTPWait == Init /\ [][TPWaitNext]_vars /\ TPWaitFair

SpecAP == Init /\ [][APNext]_vars

\* the connection pool starts empty or with slots the application has filled
InitWarm ==
    MPInit /\ RBInit /\ TPInit /\ APInit /\ CPInitWarm /\ TNInit /\ IOInit /\ ATInit /\ TCInit

SpecCP == InitWarm /\ [][CPNext]_vars

SpecTN == Init /\ [][TNNext]_vars

InitIO == MPInit /\ RBInit /\ TPInit /\ APInit /\ CPInit /\ TNInit /\ IOInitAny /\ ATInit /\ TCInit

SpecIO == InitIO /\ [][IONext]_vars

SpecAT == Init /\ [][ATNext]_vars

InitTC == MPInit /\ RBInit /\ TPInit /\ APInit /\ CPInit /\ TNInit /\ IOInit /\ ATInit /\ TCInitAny

SpecTC == InitTC /\ [][TCNext]_vars

\* no call is in progress on any thread
MPQuiescent == \A t \in MPThreads : mp_pc[t] = "idle"

\* popcount(free_bitmap) over all words
RECURSIVE MPFreeCount(_)
MPFreeCount(n) == IF n = 0 THEN 0 ELSE PopCount(mp_free_bitmap[n - 1]) + MPFreeCount(n - 1)

\* slots a thread's alloc has claimed by a successful CAS and not yet returned
MPClaimed(t) ==
    IF mp_pc[t] \in {"a_add", "a_peak", "a_peakcas"} THEN {MPBuffers(mp_loc[t].index)} ELSE {}

\* C2 (as claimed): at every quiescent point popcount(free_bitmap) + allocated = M
\* and allocated <= peak_usage <= M.
C2_Conservation ==
    MPQuiescent =>
        /\ MPFreeCount(MPBitmapSize) + mp_allocated = MPBufferCount
        /\ mp_allocated <= mp_peak_usage
        /\ mp_peak_usage <= MPBufferCount

\* C3: a buffer is lent to at most one caller at a time: no two threads hold, or
\* have claimed in a running alloc, the same buffer, and the bit of a lent buffer is 0.
C3_ExclusiveLoan ==
    /\ \A t1, t2 \in MPThreads :
           t1 # t2 => (mp_held[t1] \cup MPClaimed(t1)) \cap (mp_held[t2] \cup MPClaimed(t2)) = {}
    /\ \A t \in MPThreads : \A i \in MPSlots :
           MPBuffers(i) \in (mp_held[t] \cup MPClaimed(t)) =>
               ~BitSet(mp_free_bitmap[i \div MPWordBits], i % MPWordBits)

\* C3 witness: two threads hold buffers at once, one of them a buffer that an
\* alloc returned after the pool had been exhausted and the buffer freed
C3_Witness ==
    \E t1, t2 \in MPThreads :
        /\ t1 # t2
        /\ mp_held[t1] # {}
        /\ mp_held[t2] # {}
        /\ mp_peak_usage >= MPBufferCount
        /\ MPQuiescent

\* s is a prefix of t
IsPrefix(s, t) == Len(s) <= Len(t) /\ \A k \in 1 .. Len(s) : s[k] = t[k]

\* C4: the sequence of values returned by successful pops is a prefix of the
\* sequence of values accepted by push, in every interleaving of the loads and stores.
C4_RingFifo == IsPrefix(rb_popped, rb_pushed)

\* C4 witness: the consumer has popped past one wrap of the ring while the
\* producer is in the middle of a push
C4_Witness ==
    /\ Len(rb_popped) > RBSize
    /\ rb_ppc = "p_store_head"
    /\ rb_cpc = "c_read"

\* the slot in which the j-th accepted value was stored
RBSlotOf(j) == BitAnd(j - 1, RBMask)

\* the push in progress is rejected by this step
RBRejectStep == rb_ppc = "p_load_tail" /\ rb_ppc' = "idle"

\* the push in progress passes the full test in this step
RBAcceptStep == rb_ppc \in {"p_load_head", "p_load_tail"} /\ rb_ppc' = "p_store_buf"

\* C5: push reports full exactly when ((head+1) & mask) == tail, which is when the
\* ring holds C-1 elements and when hev_ring_buffer_is_full holds; a rejected push
\* leaves head and the buffer unchanged; the ring never holds more than C-1
\* elements and a push never overwrites an element that has not been popped.
C5_FullExactly ==
    /\ [](Len(rb_pushed) - Len(rb_popped) <= RBSize - 1)
    /\ [](\A j \in (Len(rb_popped) + 1) .. Len(rb_pushed) : rb_buffer[RBSlotOf(j)] = rb_pushed[j])
    /\ [](RBIsFull(rb_head, rb_tail) <=> BitAnd(rb_head + 1, RBMask) = rb_tail)
    /\ [][RBRejectStep =>
            /\ BitAnd(rb_head + 1, RBMask) = rb_tail
            /\ Len(rb_pushed) - Len(rb_popped) = RBSize - 1
            /\ UNCHANGED <<rb_head, rb_buffer, rb_pushed>>]_vars
    /\ [][RBAcceptStep =>
            /\ BitAnd(rb_head + 1, RBMask) # rb_tail
            /\ Len(rb_pushed) - Len(rb_popped) < RBSize - 1]_vars
    /\ [][(rb_head' # rb_head \/ rb_buffer' # rb_buffer) =>
            rb_ppc \in {"p_store_buf", "p_store_head"}]_vars

\* C5 witness: C-1 pushes were accepted with no pop and the next push was rejected
C5_Witness ==
    /\ rb_pres = -1
    /\ rb_ppc = "idle"
    /\ Len(rb_pushed) = RBSize - 1
    /\ Len(rb_popped) = 0

\* a worker leaves worker_thread in this step
TPExitStep(w) == tp_pc[w] # "exited" /\ tp_pc'[w] = "exited"

\* C6: after hev_thread_pool_destroy has returned every worker has exited, no item
\* remains queued and every item accepted before destroy began has been executed;
\* a worker exits only when shutdown is set and the queue is empty.
C6_WorkerDrain ==
    /\ [](tp_dpc = "returned" =>
            /\ \A w \in TPWorkers : tp_pc[w] = "exited"
            /\ tp_queue = <<>>
            /\ \A i \in tp_before : tp_executed[i] = 1 /\ i \in tp_freed)
    /\ [][\A w \in TPWorkers :
            TPExitStep(w) => tp_shutdown = 1 /\ tp_queue_size = 0 /\ tp_queue = <<>>]_vars

\* C6 witness: destroy began while items were still queued, and has returned
C6_Witness ==
    /\ tp_dpc = "returned"
    /\ tp_pending >= 2
    /\ Cardinality(tp_before) >= 2

(***************************************************************************)
(* Adaptive pool: the claims on current_threads and on destroy.            *)
(***************************************************************************)

\* the worker threads that were started and have not returned
APLive == {t \in APTids : ap_wpc[t] \notin {"none", "exited"}}

\* the worker threads pthread_create ever started
APStarted == {t \in APTids : ap_wpc[t] # "none"}

\* no call of hev_adaptive_pool_adjust is in progress and destroy was not called
APQuiescent ==
    /\ \A a \in APAdjusters : ap_apc[a] = "idle"
    /\ ap_dpc = "idle"

\* C7: min_threads <= current_threads <= max_threads in every reachable state,
\* calls of hev_adaptive_pool_adjust concurrent with the adjuster thread included
C7_ThreadBounds ==
    /\ APMinThreads <= ap_current_threads
    /\ ap_current_threads <= APMaxThreads

\* C8: in every quiescent state of a running pool current_threads equals the
\* number of live worker threads (a scale-down makes one worker exit)
C8_CurrentIsLive ==
    (APQuiescent /\ ap_running) => ap_current_threads = Cardinality(APLive)

\* C9: once hev_adaptive_pool_destroy has returned, the adjuster thread and every
\* worker thread ever started have been joined
C9_AllJoined ==
    ap_dpc = "returned" =>
        /\ APAdjusterTid \in ap_joined
        /\ \A t \in APStarted : t \in ap_joined

(***************************************************************************)
(* Connection pool: accounting.                                            *)
(***************************************************************************)

\* no call of hev_connection_pool_get is in progress
CPQuiescent == \A c \in CPCallers : cp_pc[c] = "idle"

\* C10: at every quiescent point cache_hits + cache_misses = total_requests, calls
\* of get that return -1 because socket or connect failed included
C10_HitsPlusMisses ==
    CPQuiescent => cp_cache_hits + cp_cache_misses = cp_total_requests

(***************************************************************************)
(* Tunnel orchestrator: the stack lock.                                    *)
(***************************************************************************)

\* C1: no thread calls pthread_mutex_lock(&lwip_mutex) while it holds lwip_mutex:
\* not the input callback, not a handler the stack calls from inside input, not
\* the timer
C1_NoRelock ==
    /\ \A r \in TNReaders : tn_rpc[r] \in {"c_lock", "h_lock"} => tn_lwip_mutex # r
    /\ tn_tpc = "t_lock" => tn_lwip_mutex # TNTimerTid

(***************************************************************************)
(* C11: hev_connection_pool_get(server, port) returns only a descriptor    *)
(* that is connected or connecting to (server, port): a get call that ends *)
(* in a cache hit hands out a descriptor whose connection was opened for   *)
(* the destination the caller asked for.                                   *)
(***************************************************************************)
C11_GetMatchesDest ==
    [][\A c \in CPCallers, d \in CPDests :
         (CPGetCall(c, d) /\ cp_cache_hits' # cp_cache_hits)
             => \A f \in cp_held'[c] \ cp_held[c] : cp_dest[f] = d]_vars

(***************************************************************************)
(* C12: in hev_tunnel_io_stop every reader is joined before any writer,    *)
(* and at the moment the last writer has been joined write_queue_size is 0,*)
(* also when producers call hev_tunnel_io_write during the stop.           *)
(***************************************************************************)
IOReadersJoinedFirst(joined) ==
    \A i, j \in 1 .. Len(joined) :
        (joined[i] \in IOWriters /\ joined[j] \in IOReaders) => j < i

C12_ShutdownOrder ==
    [][/\ IOReadersJoinedFirst(io_joined')
       /\ (io_spc = "s_join_w" /\ io_spc' = "stopped") => io_write_queue_size' = 0]_vars

(***************************************************************************)
(* C13: with max_sessions == M > 0 the session registry holds at most M    *)
(* sessions at every quiescent point (insert_session and remove_session    *)
(* run under session_mutex, so every state is between two of them).        *)
(***************************************************************************)
C13_SessionCap ==
    TNMaxSessionCount > 0 =>
        /\ tn_session_count <= TNMaxSessionCount
        /\ Len(tn_session_list) <= TNMaxSessionCount

(***************************************************************************)
(* C14: the stack lock is never held across a write() to the TUN fd.  A    *)
(* writer that is about to call write() holds neither lwip_mutex nor       *)
(* write_mutex, and the output hook, which runs in a thread that holds     *)
(* lwip_mutex, only enqueues: its step writes nothing to the TUN fd and    *)
(* adds at most one packet to the writer queue.                            *)
(***************************************************************************)
IOWriterHoldsNoLock ==
    \A w \in IOWriters :
        io_wpc[w] = "w_write" => (io_lwip_mutex # w /\ io_write_mutex # w)

IOHookOnlyEnqueues ==
    io_writes' # io_writes =>
        /\ io_tun' = io_tun
        /\ io_lwip_mutex \in IOProducers
        /\ \/ io_write_queue' = io_write_queue
           \/ io_write_queue' = Append(io_write_queue, io_writes')

C14_NoLockAcrossWrite == []IOWriterHoldsNoLock /\ [][IOHookOnlyEnqueues]_vars

\* a writer is about to call write() while a producer is inside the stack
C14_Witness ==
    \E w \in IOWriters :
        /\ io_wpc[w] = "w_write"
        /\ io_lwip_mutex \in IOProducers
        /\ Len(io_tun) > 0

(***************************************************************************)
(* C15: every call into the embedded stack (input, the ticks, session      *)
(* construction, the mapped-DNS reply, gateway teardown) is made by a      *)
(* thread that holds lwip_mutex at that moment, so at most one thread is   *)
(* inside the stack.                                                       *)
(***************************************************************************)
TNInStack ==
    {r \in TNReaders : tn_rpc[r] \in {"c_input", "h_new", "d_unlock"}}
        \cup (IF tn_tpc = "t_tick" THEN {TNTimerTid} ELSE {})
        \cup (IF tn_mpc = "f_gateway" THEN {TNMainTid} ELSE {})

C15_StackCallsHoldLock ==
    /\ \A t \in TNInStack : tn_lwip_mutex = t
    /\ Cardinality(TNInStack) <= 1

(***************************************************************************)
(* C16: hev_memory_pool_free of a buffer whose slot is already free, or of *)
(* a pointer that is not one of the pool's buffers, is a no-op: no step of *)
(* such a call changes free_bitmap, allocated or peak_usage.               *)
(***************************************************************************)
C16_StrayFreeIsNoOp ==
    [][\A t \in MPThreads :
         (\/ mp_stray[t] /\ mp_pc'[t] # mp_pc[t]
          \/ MPFreeCall(t, MPForeign))
             => UNCHANGED <<mp_free_bitmap, mp_allocated, mp_peak_usage>>]_vars

(***************************************************************************)
(* C17: hev_memory_pool_alloc returns NULL only when no slot is free.  On  *)
(* a fresh pool of capacity M, allocs that do not overlap return M distinct*)
(* non-null buffers, and the (M+1)-th returns NULL with allocated == M and *)
(* peak_usage == M; under concurrent alloc and free, an alloc does not     *)
(* return NULL if some slot stayed free for the whole duration of the call.*)
(***************************************************************************)
MPAllocPcs == {"a_load", "a_cas", "a_add", "a_peak", "a_peakcas"}

MPAllHeld == UNION {mp_held[t] : t \in MPThreads}

\* the step in which the alloc call of thread t returns
MPAllocReturns(t) == mp_pc[t] \in MPAllocPcs /\ mp_pc'[t] = "idle"

MPFreshAllocs ==
    \A t \in MPThreads :
        (/\ MPAllocReturns(t)
         /\ mp_fresh
         /\ \A u \in MPThreads \ {t} : mp_pc[u] = "idle")
            => IF Cardinality(MPAllHeld) < MPBufferCount
               THEN /\ mp_ret'[t] \in {MPBuffers(i) : i \in MPSlots}
                    /\ mp_ret'[t] \notin MPAllHeld
               ELSE /\ mp_ret'[t] = MPNull
                    /\ mp_allocated' = MPBufferCount
                    /\ mp_peak_usage' = MPBufferCount

MPNullOnlyWhenFull ==
    \A t \in MPThreads :
        (MPAllocReturns(t) /\ mp_ret'[t] = MPNull) => mp_stayed[t] = {}

C17_AllocNullOnlyWhenFull == [][MPFreshAllocs /\ MPNullOnlyWhenFull]_vars

C17_Witness ==
    /\ mp_fresh
    /\ \A t \in MPThreads : mp_pc[t] = "idle"
    /\ Cardinality(MPAllHeld) = MPBufferCount
    /\ mp_calls = MPBufferCount + 1
    /\ \E t \in MPThreads : mp_ret[t] = MPNull /\ mp_held[t] # {}
    /\ mp_allocated = MPBufferCount
    /\ mp_peak_usage = MPBufferCount

(***************************************************************************)
(* C18: hev_thread_pool_wait_all returns only in a state where             *)
(* queue_size == 0 and active_threads == 0; and when every task terminates *)
(* and no further task is submitted, every thread blocked in wait_all      *)
(* eventually returns.                                                     *)
(***************************************************************************)
TPWaitAllReturns(v) == tp_wpc[v] # "returned" /\ tp_wpc'[v] = "returned"

TPWaitAllReturnsWhenIdle ==
    \A v \in TPWaiters :
        TPWaitAllReturns(v) => (tp_queue_size = 0 /\ tp_active_threads = 0)

C18_WaitAll ==
    /\ [][TPWaitAllReturnsWhenIdle]_vars
    /\ \A v \in TPWaiters : (tp_wpc[v] = "waiting") ~> (tp_wpc[v] = "returned")

(***************************************************************************)
(* C19: the fixed worker pool's queue never holds more than MAX_QUEUE_SIZE *)
(* items: hev_thread_pool_submit called when queue_size >= MAX_QUEUE_SIZE  *)
(* returns -1 and leaves the queue unchanged; otherwise it appends the     *)
(* item at the tail, increments queue_size by one and returns 0.           *)
(***************************************************************************)
TPQueueBounded == Len(tp_queue) <= TPMaxQueueSize /\ tp_queue_size <= TPMaxQueueSize

TPSubmitContract ==
    tp_submits' # tp_submits =>
        IF tp_queue_size >= TPMaxQueueSize
        THEN /\ tp_sres' = -1
             /\ UNCHANGED <<tp_queue, tp_queue_size>>
        ELSE /\ tp_sres' = 0
             /\ tp_queue' = Append(tp_queue, tp_submits')
             /\ tp_queue_size' = tp_queue_size + 1

APAdjustEnds(a) == ap_apc[a] \in {"a_decide", "a_inc"} /\ ap_apc'[a] = "idle"

APObservedScaleUp(obs) ==
    obs.queue_depth > APScaleUpThreshold /\ obs.idle < 2 /\ obs.current < APMaxThreads

APObservedScaleDown(obs) ==
    obs.idle > APScaleDownThreshold /\ obs.queue_depth < 10 /\ obs.current > APMinThreads

APCurrentChangesOnlyInAdjust ==
    /\ ap_current_threads' > ap_current_threads =>
           /\ ap_current_threads' = ap_current_threads + 1
           /\ \E a \in APAdjusters : APAdjustEnds(a) /\ APObservedScaleUp(ap_aloc[a])
    /\ ap_current_threads' < ap_current_threads =>
           /\ ap_current_threads' = ap_current_threads - 1
           /\ \E a \in APAdjusters : APAdjustEnds(a) /\ APObservedScaleDown(ap_aloc[a])
    /\ (ap_submits' # ap_submits \/ ap_executed' # ap_executed) =>
           ap_current_threads' = ap_current_threads

C20_CurrentFollowsAdjust == [][APCurrentChangesOnlyInAdjust]_vars

\* current_threads went up in one adjust call and down again in a later one
C20_Witness ==
    /\ ap_adjusts >= 2
    /\ ap_next_tid > APMinThreads + 1
    /\ ap_current_threads = APMinThreads
    /\ \A a \in APAdjusters : ap_apc[a] \in {"idle", "exited"}

(***************************************************************************)
(* C21: with configuration {min 2, max 8, scale_up 10, scale_down 6} and   *)
(* 50 submitted tasks that each take half an interval, current_threads has *)
(* grown by 1 after the first adjuster interval and, after enough          *)
(* intervals, reaches 8 and then stops growing.                            *)
(***************************************************************************)
\* before the first interval is over current_threads is min_threads; between the
\* end of the first and of the second interval it is one more
ATFirstInterval ==
    /\ at_now < ATConfig.adjustment_interval => at_current_threads = ATConfig.min_threads
    /\ (at_now > ATConfig.adjustment_interval /\ at_now < 2 * ATConfig.adjustment_interval)
           => at_current_threads = ATConfig.min_threads + 1

\* as claimed: at the end of the run current_threads is max_threads
C21_ScaleUpReachesMax ==
    /\ ATFirstInterval
    /\ at_current_threads <= ATConfig.max_threads
    /\ at_now = ATHorizon => at_current_threads = ATConfig.max_threads

\* C21 as the code has it: current_threads grows by 1 after the first interval and
\* stops growing at 6, when the adjuster finds queue_depth <= scale_up_threshold
C21_ScaleUpStopsWhenDrained ==
    /\ ATFirstInterval
    /\ at_current_threads <= 6
    /\ at_now = ATHorizon => (at_current_threads = 6 /\ Len(at_finish) = 6)

C21_Witness ==
    /\ at_now = ATHorizon
    /\ at_executed = ATConfig.tasks
    /\ at_queue_depth = 0
    /\ at_current_threads = 6

(***************************************************************************)
(* C22: in every reachable state of the connection pool, no slot has       *)
(* in_use == true while the time elapsed since its last_used stamp exceeds *)
(* the idle timeout, for any sequence of get, release, remove, cleanup and *)
(* passage of time.                                                        *)
(***************************************************************************)
CPElapsed(i) == cp_now - cp_conns[i].last_used

C22_NoInUseBeyondTimeout ==
    \A i \in CPSlots :
        (cp_conns[i].fd >= 0 /\ cp_conns[i].in_use) => CPElapsed(i) <= CONN_IDLE_TIMEOUT

\* C22 as the code has it: a slot becomes in use only while the time elapsed since
\* its last_used stamp is below the idle timeout, and is stamped with the current
\* time when it does; a slot in use keeps its descriptor while time passes
CPTakenUnexpired ==
    \A i \in CPSlots :
        (~cp_conns[i].in_use /\ cp_conns'[i].in_use)
            => /\ CPElapsed(i) < CONN_IDLE_TIMEOUT
               /\ cp_conns'[i].last_used = cp_now
               /\ cp_conns'[i].fd = cp_conns[i].fd
               /\ cp_conns[i].fd >= 0

CPInUseKeptByTime ==
    \A i \in CPSlots :
        (cp_conns[i].in_use /\ cp_conns'[i].fd # cp_conns[i].fd)
            => (cp_now' = cp_now /\ \E c \in CPCallers : cp_conns[i].fd \in cp_held[c])

C22_InUseTakenUnexpired == [][CPTakenUnexpired /\ CPInUseKeptByTime]_vars

C22_Witness ==
    \E i \in CPSlots :
        /\ cp_conns[i].fd >= 0
        /\ cp_conns[i].in_use
        /\ CPElapsed(i) > CONN_IDLE_TIMEOUT
        /\ cp_cache_hits > 0

(***************************************************************************)
(* C23: hev_connection_pool_release (fd) of an fd that is in no slot       *)
(* either stores it in the first empty slot as idle (in_use false,         *)
(* last_used = now) or, when no slot is empty, closes it and counts        *)
(* exactly one eviction; release of an fd that is in a slot only clears    *)
(* in_use and restamps last_used and never creates a second slot for it.   *)
(***************************************************************************)
CPSlotsOf(conns, fd) == {i \in CPSlots : conns[i].fd = fd}

CPEmptySlots == {i \in CPSlots : cp_conns[i].fd < 0}

CPReleaseContract(c, fd) ==
    IF CPSlotsOf(cp_conns, fd) # {}
    THEN /\ \A i \in CPSlots :
                IF i \in CPSlotsOf(cp_conns, fd)
                THEN /\ cp_conns'[i].fd = fd
                     /\ ~cp_conns'[i].in_use
                     /\ cp_conns'[i].last_used = cp_now
                     /\ cp_conns'[i].use_count = cp_conns[i].use_count
                ELSE cp_conns'[i] = cp_conns[i]
         /\ UNCHANGED <<cp_evictions, cp_open>>
    ELSE IF CPEmptySlots # {}
    THEN /\ \E i \in CPEmptySlots :
                /\ \A j \in CPEmptySlots : i <= j
                /\ cp_conns'[i].fd = fd
                /\ ~cp_conns'[i].in_use
                /\ cp_conns'[i].last_used = cp_now
                /\ \A j \in CPSlots \ {i} : cp_conns'[j] = cp_conns[j]
         /\ UNCHANGED <<cp_evictions, cp_open>>
    ELSE /\ cp_conns' = cp_conns
         /\ cp_open' = cp_open \ {fd}
         /\ cp_evictions' = cp_evictions + 1

CPOneSlotPerFd ==
    \A i, j \in CPSlots : (cp_conns[i].fd >= 0 /\ cp_conns[i].fd = cp_conns[j].fd) => i = j

C23_ReleaseContract ==
    /\ []CPOneSlotPerFd
    /\ [][\A c \in CPCallers, fd \in CPFds :
            CPRelease(c, fd) => CPReleaseContract(c, fd)]_vars

\* a descriptor was released to a full pool: closed and counted
C23_Witness ==
    /\ CPEmptySlots = {}
    /\ cp_evictions = 1
    /\ cp_cache_misses = 1
    /\ cp_cache_hits = 0
    /\ \A c \in CPCallers : cp_held[c] = {}
    /\ cp_open = {cp_conns[i].fd : i \in CPSlots}
    /\ \A i \in CPSlots : cp_conns[i].use_count = 1

(***************************************************************************)
(* C24: hev_connection_pool_get closes, clears and counts one eviction for *)
(* every idle, unexpired slot whose liveness probe fails that it scans     *)
(* before the first live slot; if no scanned slot is live it opens a new   *)
(* socket and counts exactly one miss (two dead slots give evictions == 2, *)
(* misses == 1 and a new fd).                                              *)
(***************************************************************************)
\* the slots the scan looks at: open, not in use, not expired
CPScanned == {i \in CPSlots : /\ cp_conns[i].fd >= 0
                              /\ ~cp_conns[i].in_use
                              /\ CPElapsed(i) < CONN_IDLE_TIMEOUT}

CPLiveScanned == {i \in CPScanned : cp_alive[cp_conns[i].fd]}

\* the scanned slots whose probe fails and that come before the first live one
CPDeadFirst == {i \in CPScanned : /\ ~cp_alive[cp_conns[i].fd]
                                  /\ \A j \in CPLiveScanned : i < j}

CPGetScanContract(c) ==
    /\ cp_evictions' = cp_evictions + Cardinality(CPDeadFirst)
    /\ \A i \in CPDeadFirst : cp_conns'[i].fd = -1 /\ cp_conns[i].fd \notin cp_open'
    /\ \A i \in CPSlots \ CPDeadFirst : cp_conns'[i].fd = cp_conns[i].fd
    /\ cp_cache_misses' = cp_cache_misses
    /\ IF CPLiveScanned # {}
       THEN /\ cp_cache_hits' = cp_cache_hits + 1
            /\ \E i \in CPLiveScanned :
                   /\ \A j \in CPLiveScanned : i <= j
                   /\ cp_conns'[i].in_use
                   /\ cp_conns'[i].last_used = cp_now
                   /\ cp_conns'[i].use_count = cp_conns[i].use_count + 1
                   /\ cp_held'[c] = cp_held[c] \cup {cp_conns[i].fd}
       ELSE /\ cp_cache_hits' = cp_cache_hits
            /\ cp_pc'[c] = "g_socket"
            /\ cp_held'[c] = cp_held[c]

\* the miss path changes no slot and no eviction count, and the call that returns
\* the new descriptor counts one miss; nothing else changes cache_misses
CPMissContract ==
    /\ \A c \in CPCallers :
           (cp_pc[c] \in {"g_socket", "g_connect", "g_miss"} /\ cp_pc'[c] # cp_pc[c])
               => /\ UNCHANGED <<cp_conns, cp_evictions, cp_cache_hits>>
                  /\ cp_pc[c] = "g_miss" =>
                         /\ cp_cache_misses' = cp_cache_misses + 1
                         /\ \E f \in cp_open \ {cp_conns[i].fd : i \in CPSlots} :
                                cp_held'[c] = cp_held[c] \cup {f} /\ f \notin cp_held[c]
                  /\ cp_pc[c] # "g_miss" => cp_cache_misses' = cp_cache_misses
    /\ cp_cache_misses' # cp_cache_misses => \E c \in CPCallers : cp_pc[c] = "g_miss"

IOWriteCalled == io_writes' = io_writes + 1

\* what the call must have done with packet p, given the queue it found
IOWriteContract(p) ==
    IF Len(io_write_queue) >= IOWriteQueueSize
    THEN /\ io_ret'[Len(io_ret')] = -1
         /\ io_write_queue' = io_write_queue
         /\ io_write_queue_size' = io_write_queue_size
         /\ io_ref'[p] = io_ref[p]
    ELSE /\ io_ret'[Len(io_ret')] = 0
         /\ io_write_queue' = Append(io_write_queue, p)
         /\ io_write_queue_size' = io_write_queue_size + 1
         /\ io_ref'[p] = io_ref[p] + 1

\* C25: the writer queue never holds more than WRITE_QUEUE_SIZE packets; a call of
\* hev_tunnel_io_write that finds the queue full returns -1 and leaves the queue and
\* the packet's reference count as they were, and a call that finds room returns 0
\* and appends one node at the tail that holds exactly one added reference
C25_WriteQueueBounded ==
    /\ [](Len(io_write_queue) <= IOWriteQueueSize)
    /\ [][IOWriteCalled => /\ Len(io_ret') = Len(io_ret) + 1
                           /\ IOWriteContract(io_writes')
                           /\ \A q \in IOPackets \ {io_writes'} : io_ref'[q] = io_ref[q]]_vars

\* a call was rejected with the queue full, after calls that were accepted
C25_Witness ==
    /\ Len(io_write_queue) = IOWriteQueueSize
    /\ \E i \in 1 .. Len(io_ret) : io_ret[i] = -1 /\ io_ref[i] = 1
    /\ \E i \in 1 .. Len(io_ret) : io_ret[i] = 0 /\ io_ref[i] = 2


\* the packets hev_tunnel_io_write accepted; a packet's number is its place in the
\* order of the calls, so a smaller number was enqueued earlier
IOAccepted == {p \in 1 .. Len(io_ret) : io_ret[p] = 0}

IOInOrder(q) == \A i, j \in 1 .. Len(q) : i < j => q[i] < q[j]

\* no accepted packet lies between two packets of q without being in q
IOContiguous(q) ==
    \A a, b \in IORange(q), c \in IOAccepted : (a < c /\ c < b) => c \in IORange(q)

\* the queue is in enqueue order and everything that has left it is older
IOQueueFifo ==
    /\ IOInOrder(io_write_queue)
    /\ IORange(io_write_queue) \subseteq IOAccepted
    /\ \A p \in IOAccepted \ IORange(io_write_queue), q \in IORange(io_write_queue) : p < q

\* what a writer holds: an ordered contiguous run, apart from every other writer's
\* and from the queue
IOBatchesDisjointRuns ==
    /\ \A w \in IOWriters :
          /\ Len(io_batch[w]) <= IOWriteBatchSize
          /\ IOInOrder(io_batch[w])
          /\ IOContiguous(io_batch[w])
          /\ IORange(io_batch[w]) \cap IORange(io_write_queue) = {}
          /\ \A p \in IORange(io_batch[w]) : io_freed[p] = 0
    /\ \A w1, w2 \in IOWriters :
          w1 # w2 => IORange(io_batch[w1]) \cap IORange(io_batch[w2]) = {}

\* a step in which writer w fills its batch takes the head of the queue as it stands
IOTakesHead(w) ==
    Len(io_batch'[w]) > Len(io_batch[w]) =>
        /\ io_batch[w] = <<>>
        /\ Len(io_batch'[w]) <= Len(io_write_queue)
        /\ \A i \in 1 .. Len(io_batch'[w]) : io_batch'[w][i] = io_write_queue[i]
        /\ Len(io_write_queue') = Len(io_write_queue) - Len(io_batch'[w])
        /\ \A i \in 1 .. Len(io_write_queue') :
              io_write_queue'[i] = io_write_queue[i + Len(io_batch'[w])]

\* a step in which writer w's batch shrinks disposes of its first packet, and a
\* packet reaches the TUN fd only in such a step
IOWritesHead(w) ==
    Len(io_batch'[w]) < Len(io_batch[w]) =>
        /\ io_batch'[w] = Tail(io_batch[w])
        /\ io_tun' \in {io_tun, Append(io_tun, Head(io_batch[w]))}

\* C26: packets leave the writer queue in the order they were enqueued; a writer's
\* batch is a contiguous run of at most WRITE_BATCH_SIZE queue entries, the batches
\* of different writers are disjoint, a batch is written to the TUN fd in enqueue
\* order, and with a single writer the TUN fd sees the global enqueue order
C26_WriterQueueOrder ==
    /\ [](IOQueueFifo /\ IOBatchesDisjointRuns)
    /\ [](io_num_writers = 1 => IOInOrder(io_tun))
    /\ [][/\ \A w \in IOWriters : IOTakesHead(w) /\ IOWritesHead(w)
          /\ (io_tun' # io_tun =>
                 \E w \in IOWriters : Len(io_batch'[w]) < Len(io_batch[w]))]_vars

\* two writers hold packets at once, one of them part way through its batch
C26_Witness ==
    \E w1, w2 \in IOWriters :
        /\ w1 # w2
        /\ Len(io_batch[w1]) >= 1
        /\ Len(io_batch[w2]) >= 1
        /\ Len(io_tun) >= 1


\* the packets still held by the engine: queued, or in a writer's batch
IOPending == IORange(io_write_queue) \cup UNION {IORange(io_batch[w]) : w \in IOWriters}

\* the queue reference of a packet exists exactly while the engine holds the packet,
\* and pbuf_free has been called for it once, not more, when it no longer does
IOQueueRefAccounting ==
    \A p \in IOPackets :
        /\ io_freed[p] <= 1
        /\ io_ref[p] >= 1
        /\ p \in IOAccepted => (io_freed[p] = 0 <=> p \in IOPending)
        /\ p \in IOAccepted => io_ref[p] = (IF p \in IOPending THEN 2 ELSE 1)
        /\ p \notin IOAccepted => io_freed[p] = 0 /\ io_ref[p] = 1

\* after hev_tunnel_io_destroy nothing is held and every accepted packet was freed once
IODestroyedClean ==
    io_spc = "destroyed" =>
        /\ IOPending = {}
        /\ \A p \in IOAccepted : io_freed[p] = 1 /\ io_ref[p] = 1

\* a writer that disposes of a packet releases it, whether or not it reached the TUN fd
IOWriterReleases ==
    \A w \in IOWriters :
        Len(io_batch'[w]) < Len(io_batch[w]) =>
            /\ io_freed'[Head(io_batch[w])] = io_freed[Head(io_batch[w])] + 1
            /\ io_ref'[Head(io_batch[w])] = io_ref[Head(io_batch[w])] - 1

\* C27: every packet accepted onto the writer queue is written or freed and its queue
\* reference is released exactly once, by the writer that dequeued it (write succeeded
\* or failed) or by hev_tunnel_io_destroy for the packets still queued; after stop and
\* destroy no queued packet is leaked and none is freed twice
C27_QueueRefReleasedOnce ==
    /\ [](IOQueueRefAccounting /\ IODestroyedClean)
    /\ [][IOWriterReleases]_vars

\* stop joined the threads, destroy then found packets still queued, and earlier a
\* writer had written one packet and failed to write another
C27_Witness ==
    /\ io_spc = "destroyed"
    /\ io_joined # <<>>
    /\ io_write_queue_size > 0
    /\ Len(io_tun) >= 1
    /\ \E p \in IOAccepted : io_freed[p] = 1 /\ p \notin IORange(io_tun)


\* the scheduler runs every thread that can take a step, and a call that can return
\* does; nothing obliges the application to call run or stop, a packet to arrive,
\* or a pthread_mutex_lock of a mutex the caller already holds to return
TNFair ==
    /\ WF_vars(TNRunReturn /\ TNFrame)
    /\ WF_vars(TNStopIo /\ TNFrame)
    /\ WF_vars(TNStopJoin /\ TNFrame)
    /\ WF_vars(TNTimerLoop /\ TNFrame)
    /\ WF_vars(TNTimerLock /\ TNFrame)
    /\ WF_vars(TNTimerTick /\ TNFrame)
    /\ \A r \in TNReaders :
          /\ WF_vars(TNReaderExit(r) /\ TNFrame)
          /\ WF_vars(TNReaderCallbackLock(r) /\ TNFrame)
          /\ WF_vars(TNCallbackLock(r) /\ TNFrame)
          /\ WF_vars((TNInputPlain(r) \/ \E k \in {"tcp", "udp", "dns"} : TNInputHandler(r, k))
                        /\ TNFrame)
          /\ WF_vars(TNHandlerEntry(r) /\ TNFrame)
          /\ WF_vars(TNHandlerLock(r) /\ TNFrame)
          /\ WF_vars(TNDnsUnlock(r) /\ TNFrame)
          /\ WF_vars((\E ok \in BOOLEAN : TNHandlerNew(r, ok)) /\ TNFrame)
          /\ WF_vars((\E ok \in BOOLEAN : TNHandlerInsert(r, ok)) /\ TNFrame)
          /\ WF_vars((\E ok \in BOOLEAN : TNHandlerSubmit(r, ok)) /\ TNFrame)
          /\ WF_vars(TNCallbackUnlock(r) /\ TNFrame)
          /\ WF_vars(TNReaderCallbackUnlock(r) /\ TNFrame)

SpecTNFair == Init /\ [][TNNext]_vars /\ TNFair

\* run has returned only with the timer thread gone (or never created), 0 only
\* after stop was called, -1 exactly when the timer thread or the engine did not start
TNRunReturnValue ==
    /\ tn_ret # <<>> => tn_tpc \in {"none", "exited"}
    /\ tn_tpc = "none" /\ tn_ret # <<>> => tn_ret = <<-1>>
    /\ tn_ret = <<0>> => tn_spc # "idle" /\ tn_run = 0

\* the moment run returns: -1 when no timer thread exists or the join was reached
\* without a stop (the failed start of the engine), else 0
TNRunReturnStep ==
    tn_ret' # tn_ret =>
        /\ tn_ret = <<>>
        /\ tn_ret' = (IF tn_tpc = "none" \/ tn_spc = "idle" THEN <<-1>> ELSE <<0>>)

\* with run cleared the timer thread leaves at its next loop test, so it makes at
\* most the tick it had begun
TNTimerLeavesAtTest ==
    (tn_run = 0 /\ tn_tpc = "t_loop" /\ tn_tpc' # tn_tpc) => tn_tpc' = "exited"

\* C28: hev_socks5_tunnel_run returns only after the timer thread has exited, 0 after
\* a shutdown requested by stop and -1 when the timer thread or the I/O engine fails
\* to start; once stop is called while run is blocked the timer thread exits after
\* at most one more tick and run eventually returns
C28_RunReturnsAfterStop ==
    /\ [](TNRunReturnValue)
    /\ [][TNRunReturnStep /\ TNTimerLeavesAtTest]_vars
    /\ ((tn_spc # "idle" /\ tn_mpc = "join") ~> (tn_ret # <<>>))


\* the positions of hev_socks5_tunnel_fini from the destruction of the worker pool
\* on, and from gateway_fini on
TNFiniFromPool == {"f_pool", "f_gateway_call", "f_gateway", "f_sessions", "finished"}

TNFiniFromGateway == {"f_gateway_call", "f_gateway", "f_sessions", "finished"}

\* C29: in a shutdown of the running tunnel the flag is cleared, then the I/O engine
\* is stopped (its threads joined), then the timer thread is joined, then the worker
\* pool is destroyed with its queue drained, then the gateway is torn down and the
\* TUN device closed; no step starts before the previous one has completed
C29_OrchestratorShutdownOrder ==
    /\ tn_spc # "idle" => tn_run = 0
    /\ tn_ret = <<0>> => tn_spc = "done" /\ \A r \in TNReaders : tn_rpc[r] = "exited"
    /\ tn_mpc \in TNFiniFromPool => tn_ret # <<>> /\ tn_tpc \in {"none", "exited"}
    /\ tn_mpc \in TNFiniFromGateway => tn_tasks = {}


\* clamp (2 * cores, MIN_THREADS, MAX_THREADS)
TCClampDoubled(cores) ==
    IF 2 * cores < TCMinThreads THEN TCMinThreads
    ELSE IF 2 * cores > TCMaxThreads THEN TCMaxThreads
    ELSE 2 * cores

\* C30: hev_thread_pool_new (0) creates exactly clamp (2 * cores, 2, 64) worker
\* threads for every processor count, and hev_thread_pool_new (k) with k > 0
\* creates exactly k
C30_WorkerCount ==
    tc_pc = "done" =>
        tc_i = (IF tc_arg = 0 THEN TCClampDoubled(tc_cores) ELSE tc_arg)


\* tunnel_io is not NULL: hev_socks5_tunnel_init has set it and hev_socks5_tunnel_fini
\* has not yet cleared it after hev_tunnel_io_destroy
TNTunnelIo == tn_mpc \notin TNFiniFromPool

\* hev_tunnel_io_get_stats: the counters of the engine as they are (of the four, the
\* orchestrator model carries rx_packets)
TNIoGetStats == [rx_packets |-> tn_packets]

\* hev_socks5_tunnel_stats: the engine's counters if tunnel_io is set, else zeros
TNStats == IF TNTunnelIo THEN TNIoGetStats ELSE [rx_packets |-> 0]

\* C31: hev_socks5_tunnel_stats returns zero counters whenever the engine is not
\* running, before run has started the I/O engine and after stop has stopped it
C31_StatsZeroWhenNotRunning == tn_io_running = 0 => TNStats.rx_packets = 0


\* the thread whose mutex thread t is blocked on in pthread_mutex_lock, or 0: a
\* reader before the callback waits for io->callback_mutex, a reader in
\* packet_read_callback or in a handler and the timer thread wait for lwip_mutex
TNWaitsFor(t) ==
    IF t \in TNReaders /\ tn_rpc[t] = "r_cb_lock" THEN tn_callback_mutex
    ELSE IF t \in TNReaders /\ tn_rpc[t] \in {"c_lock", "h_lock"} THEN tn_lwip_mutex
    ELSE IF t = TNTimerTid /\ tn_tpc = "t_lock" THEN tn_lwip_mutex
    ELSE 0

\* following the waits from t for n steps comes back to t
RECURSIVE TNWaitReaches(_, _, _)
TNWaitReaches(from, t, n) ==
    /\ n > 0
    /\ TNWaitsFor(from) # 0
    /\ \/ TNWaitsFor(from) = t
       \/ TNWaitReaches(TNWaitsFor(from), t, n - 1)

TNCyclicWait == \E t \in TNReaders \cup {TNTimerTid} : TNWaitReaches(t, t, TNReaderCount + 1)

\* a reader that takes the stack lock in packet_read_callback holds the read-callback
\* mutex, and the timer thread holds nothing when it takes the stack lock
TNLockOrderStep ==
    /\ \A r \in TNReaders :
          (tn_rpc[r] = "c_lock" /\ tn_rpc'[r] # "c_lock") =>
              tn_callback_mutex = r /\ tn_lwip_mutex' = r
    /\ (tn_tpc = "t_lock" /\ tn_tpc' # "t_lock") =>
           tn_callback_mutex # TNTimerTid /\ tn_lwip_mutex' = TNTimerTid

\* C32: the locks are acquired in the order read-callback mutex, stack lock, then a
\* leaf mutex, and no cyclic wait among the reader and timer threads is reachable
C32_LockOrderNoCycle ==
    /\ [][TNLockOrderStep]_vars
    /\ [](~TNCyclicWait)


\* no handler is between the creation of a session and the return of its submit
TNRegistryQuiescent == \A r \in TNReaders : tn_rpc[r] \notin {"h_insert", "h_submit"}

TNListed == {tn_session_list[i] : i \in 1 .. Len(tn_session_list)}

\* C33: a session is in the registry from before its submit until it is removed, once,
\* by the task wrapper or by the handler whose submit failed: at every quiescent point
\* the registry holds exactly the sessions whose work item is queued or running, each
\* once, and session_count equals the number of list nodes
C33_RegistryMatchesTasks ==
    /\ tn_session_count = Len(tn_session_list)
    /\ \A i, j \in 1 .. Len(tn_session_list) :
          tn_session_list[i] = tn_session_list[j] => i = j
    /\ (TNRegistryQuiescent /\ tn_mpc # "finished") => TNListed = tn_tasks


\* the workers that have dequeued an item and not yet reported its completion
TPBusy == {w \in TPWorkers : tp_item[w] # 0}

TPQueued == {tp_queue[k] : k \in 1 .. Len(tp_queue)}

\* items are numbered by the order of the submit calls: the queue is in that order
\* and whatever has left it is older than whatever is in it
TPFifo ==
    /\ \A i, j \in 1 .. Len(tp_queue) : i < j => tp_queue[i] < tp_queue[j]
    /\ \A a \in tp_accepted \ TPQueued, b \in TPQueued : a < b

\* an accepted item is queued, or held by exactly one worker, or done; its task runs
\* once, and the item is freed only after that
TPOnceByOne ==
    /\ \A w1, w2 \in TPBusy : tp_item[w1] = tp_item[w2] => w1 = w2
    /\ \A i \in TPItems :
          /\ tp_executed[i] <= 1
          /\ tp_executed[i] = 1 => i \in tp_accepted /\ i \notin TPQueued
          /\ (i \in tp_accepted /\ i \in tp_freed) => tp_executed[i] = 1
    /\ \A i \in tp_accepted :
          i \in TPQueued \/ (\E w \in TPBusy : tp_item[w] = i) \/ tp_executed[i] = 1

\* active_threads counts the workers that hold an item
TPActiveCount ==
    /\ tp_active_threads = Cardinality(TPBusy)
    /\ 0 <= tp_active_threads
    /\ tp_active_threads <= TPNumThreads

\* C34: in the fixed pool every item accepted by submit is executed exactly once by
\* exactly one worker, items are dequeued in submission order, active_threads equals
\* the number of workers running a task, and an item is freed only after its task
\* has returned
C34_ExactlyOnceInOrder ==
    /\ [](TPFifo /\ TPOnceByOne /\ TPActiveCount)
    /\ [][\A w \in TPWorkers :
             (tp_item[w] = 0 /\ tp_item'[w] # 0) => tp_item'[w] = Head(tp_queue)]_vars
    /\ [](tp_dpc = "returned" => \A i \in tp_accepted : tp_executed[i] = 1)


\* the slots of the worker array whose thread handle names a worker that is still alive
APLiveSlots == {k \in APSlots : ap_workers[k].active /\ ap_workers[k].thread \in APLive}

\* C35: a scale-up starts the new worker in a slot that holds no live worker: the
\* thread handle and the active flag of a live worker are never overwritten, also
\* when the scale-up follows a scale-down
C35_ScaleUpUsesFreeSlot ==
    [][\A k \in APSlots : ap_workers'[k] # ap_workers[k] => k \notin APLiveSlots]_vars


\* the work items that sit in the ring between tail and head
APQueued ==
    {ap_work_queue.buffer[BitAnd(ap_work_queue.tail + k, RBMask)] :
        k \in 0 .. (RBSizeOf(ap_work_queue.head, ap_work_queue.tail) - 1)}

\* the accepted items whose task has not run: queued, or popped by a worker
APUnexecuted == APQueued \cup {ap_witem[t] : t \in {u \in APTids : ap_witem[u] # 0}}

\* a worker leaves its loop
APWorkerExits(t) == ap_wpc[t] # "exited" /\ ap_wpc'[t] = "exited"

\* C36: the adaptive pool follows the fixed pool's discipline: no task runs twice, a
\* worker exits at shutdown only when the queue is empty, and when
\* hev_adaptive_pool_destroy has returned no accepted task is left unexecuted
C36_AdaptiveDrain ==
    /\ [](\A i \in APItems : ap_executed[i] <= 1)
    /\ [][\A t \in APTids : APWorkerExits(t) => APQueued = {}]_vars
    /\ [](ap_dpc = "returned" => APUnexecuted = {})


(***************************************************************************)
(* Connection pool: callers that share pooled descriptors.                 *)
(***************************************************************************)

\* the calls of get in a history where a second caller asks while the first holds
CPShareGets == CPMaxGets + 1

\* hev_connection_pool_get, first part, with the call budget CPShareGets
CPGetCallShare(c, dest) ==
    /\ cp_pc[c] = "idle"
    /\ cp_total_requests < CPShareGets
    /\ cp_total_requests' = cp_total_requests + 1
    /\ LET r == CPGetScan(0, cp_conns, cp_open, cp_evictions, cp_now)
           closed == cp_open \ r.open
       IN  /\ cp_conns' = r.conns
           /\ cp_open' = r.open
           /\ cp_evictions' = r.evictions
           /\ cp_dest' = CPForget(cp_dest, closed)
           /\ cp_alive' = CPForgetAlive(cp_alive, closed)
           /\ IF r.fd >= 0
              THEN /\ cp_cache_hits' = cp_cache_hits + 1
                   /\ cp_held' = [cp_held EXCEPT ![c] = @ \cup {r.fd}]
                   /\ UNCHANGED <<cp_pc, cp_loc>>
              ELSE /\ cp_pc' = [cp_pc EXCEPT ![c] = "g_socket"]
                   /\ cp_loc' = [cp_loc EXCEPT ![c] = [fd |-> -1, dest |-> dest]]
                   /\ UNCHANGED <<cp_cache_hits, cp_held>>
    /\ UNCHANGED <<cp_cache_misses, cp_now>>

CPShareNext ==
    \/ \E c \in CPCallers : CPGetCallShare(c, 1) /\ CPFrame
    \/ \E c \in CPCallers : CPGetSocketOk(c) /\ CPFrame
    \/ \E c \in CPCallers : CPGetSocketFail(c) /\ CPFrame
    \/ \E c \in CPCallers : CPGetConnectOk(c) /\ CPFrame
    \/ \E c \in CPCallers : CPGetConnectFail(c) /\ CPFrame
    \/ \E c \in CPCallers : CPGetMiss(c) /\ CPFrame
    \/ \E c \in CPCallers, fd \in CPFds : CPRelease(c, fd) /\ CPFrame
    \/ \E c \in CPCallers, fd \in CPFds : CPRemove(c, fd) /\ CPFrame
    \/ CPCleanup /\ CPFrame
    \/ CPTick /\ CPFrame
    \/ \E fd \in CPFds : CPPeerClose(fd) /\ CPFrame

SpecCPShare == InitWarm /\ [][CPShareNext]_vars


\* the callers that hold descriptor f
CPHolders(f) == {c \in CPCallers : f \in cp_held[c]}

\* the descriptors some caller got from get and has not released or removed
CPHeldFds == {f \in CPFds : CPHolders(f) # {}}

\* a held descriptor has one holder, is open, and a slot that stores it is in use
CPExclusiveHold ==
    \A f \in CPHeldFds :
        /\ Cardinality(CPHolders(f)) = 1
        /\ f \in cp_open
        /\ \A i \in CPSlots : cp_conns[i].fd = f => cp_conns[i].in_use

\* a step that is not the holder's release or remove leaves a held slot alone
CPHeldSlotKept ==
    \A i \in CPSlots :
        (cp_conns[i].fd \in CPHeldFds /\ cp_conns'[i].fd \in CPHeldFds')
            => (cp_conns'[i].fd = cp_conns[i].fd /\ cp_conns'[i].in_use)

\* C37: a pooled fd is handed to at most one caller at a time: between the get that
\* returned it from a slot and that caller's release or remove no other get returns
\* it and cleanup never closes it, whatever the interleaving
C37_ExclusiveFd == []CPExclusiveHold /\ [][CPHeldSlotKept]_vars

\* one caller holds the descriptor of the only warm slot and a second caller's get,
\* finding the slot in use, has opened a connection of its own
C37_Witness ==
    /\ cp_now = 0
    /\ cp_cache_hits = 1
    /\ cp_cache_misses = 1
    /\ \E i \in CPSlots :
          /\ cp_conns[i].in_use
          /\ cp_alive[cp_conns[i].fd]
          /\ \A j \in CPSlots \ {i} : cp_conns[j].fd < 0
          /\ \E c1, c2 \in CPCallers :
                /\ c1 # c2
                /\ cp_held[c1] = {cp_conns[i].fd}
                /\ cp_held[c2] # {}
                /\ cp_held[c2] # cp_held[c1]


(***************************************************************************)
(* Connection pool: callers that release a descriptor more than once.      *)
(***************************************************************************)

\* the release calls with a descriptor the caller does not hold that the model follows
CPMaxRepeats == 1

\* the calls of get and of such releases together that the model follows
CPMaxRepeatCalls == CPMaxRepeats + 1

\* mutant: the repeated release does not look for the descriptor among the slots
CPReleaseAgainNoFind(c, fd) ==
    /\ cp_pc[c] = "idle"
    /\ fd \notin cp_held[c]
    /\ cp_repeats < CPMaxRepeats
    /\ cp_total_requests + cp_repeats < CPMaxRepeatCalls
    /\ cp_repeats' = cp_repeats + 1
    /\ LET empty == CPFirstSlot({i \in CPSlots : cp_conns[i].fd < 0})
       IN  IF empty >= 0
           THEN /\ cp_conns' = [cp_conns EXCEPT ![empty] =
                                    [fd |-> fd, in_use |-> FALSE, last_used |-> cp_now,
                                     use_count |-> 1]]
                /\ UNCHANGED <<cp_open, cp_dest, cp_alive, cp_evictions>>
           ELSE /\ cp_open' = cp_open \ {fd}
                /\ cp_dest' = CPForget(cp_dest, {fd})
                /\ cp_alive' = CPForgetAlive(cp_alive, {fd})
                /\ cp_evictions' = cp_evictions + 1
                /\ UNCHANGED cp_conns
    /\ UNCHANGED <<cp_total_requests, cp_cache_hits, cp_cache_misses, cp_now, cp_pc,
                   cp_loc, cp_held>>

\* hev_connection_pool_release of a descriptor the caller does not hold (any more):
\* the same code, which cannot tell the call from a first release
CPReleaseAgain(c, fd) ==
    /\ cp_pc[c] = "idle"
    /\ fd \notin cp_held[c]
    /\ cp_repeats < CPMaxRepeats
    /\ cp_total_requests + cp_repeats < CPMaxRepeatCalls
    /\ cp_repeats' = cp_repeats + 1
    /\ LET found == CPFirstSlot({i \in CPSlots : cp_conns[i].fd = fd})
           empty == CPFirstSlot({i \in CPSlots : cp_conns[i].fd < 0})
       IN  IF found >= 0
           THEN /\ cp_conns' = [cp_conns EXCEPT ![found].in_use = FALSE,
                                                ![found].last_used = cp_now]
                /\ UNCHANGED <<cp_open, cp_dest, cp_alive, cp_evictions>>
           ELSE IF empty >= 0
           THEN /\ cp_conns' = [cp_conns EXCEPT ![empty] =
                                    [fd |-> fd, in_use |-> FALSE, last_used |-> cp_now,
                                     use_count |-> 1]]
                /\ UNCHANGED <<cp_open, cp_dest, cp_alive, cp_evictions>>
           ELSE /\ cp_open' = cp_open \ {fd}
                /\ cp_dest' = CPForget(cp_dest, {fd})
                /\ cp_alive' = CPForgetAlive(cp_alive, {fd})
                /\ cp_evictions' = cp_evictions + 1
                /\ UNCHANGED cp_conns
    /\ UNCHANGED <<cp_total_requests, cp_cache_hits, cp_cache_misses, cp_now, cp_pc,
                   cp_loc, cp_held>>

\* the descriptors of a repeated release: one the pool stores, or the number of a
\* descriptor that is closed by now, which socket() hands out next
CPRepeatFds ==
    {cp_conns[i].fd : i \in {j \in CPSlots : cp_conns[j].fd >= 0}}
        \cup (IF cp_open = CPFds THEN {} ELSE {CPLowestFree(cp_open)})

CPRepeatFrame == UNCHANGED <<mpVars, rbVars, tpVars, apVars, tnVars, ioVars, atVars, tcVars>>

CPRepeatNext ==
    \/ /\ cp_total_requests + cp_repeats < CPMaxRepeatCalls
       /\ \E c \in CPCallers : CPGetCall(c, 1) /\ CPFrame
    \/ \E c \in CPCallers : CPGetSocketOk(c) /\ CPFrame
    \/ \E c \in CPCallers : CPGetSocketFail(c) /\ CPFrame
    \/ \E c \in CPCallers : CPGetConnectOk(c) /\ CPFrame
    \/ \E c \in CPCallers : CPGetConnectFail(c) /\ CPFrame
    \/ \E c \in CPCallers : CPGetMiss(c) /\ CPFrame
    \/ \E c \in CPCallers, fd \in CPFds : CPRelease(c, fd) /\ CPFrame
    \/ \E c \in CPCallers, fd \in CPRepeatFds : CPReleaseAgain(c, fd) /\ CPRepeatFrame
    \/ \E c \in CPCallers, fd \in CPFds : CPRemove(c, fd) /\ CPFrame
    \/ CPCleanup /\ CPFrame
    \/ CPTick /\ CPFrame
    \/ \E fd \in CPFds : CPPeerClose(fd) /\ CPFrame

SpecCPRepeat == InitWarm /\ [][CPRepeatNext]_vars

\* the slots that store descriptor f
CPStoredIn(f) == {i \in CPSlots : cp_conns[i].fd = f}

\* C40: in every reachable state each open fd (fd >= 0) appears in at most one slot,
\* for any sequence of get, release (repeated release of the same fd included),
\* remove and cleanup, and a slot with fd < 0 is never marked in_use
C40_SlotsDistinct ==
    /\ \A f \in CPFds : Cardinality(CPStoredIn(f)) <= 1
    /\ \A i \in CPSlots : cp_conns[i].fd < 0 => ~cp_conns[i].in_use

\* cleanup has closed a descriptor, a repeated release has put its number back, and
\* the other slot is in use
C40_Witness ==
    /\ cp_repeats = 1
    /\ cp_evictions = 1
    /\ \E i \in CPSlots : cp_conns[i].fd >= 0 /\ cp_conns[i].fd \notin cp_open
    /\ \E i \in CPSlots : cp_conns[i].in_use


(***************************************************************************)
(* Tunnel I/O engine: thread creation step by step, with pthread_create    *)
(* and the allocation of a reader's buffer able to fail.                   *)
(***************************************************************************)

\* hev_tunnel_io_start: if (!io || io->running) return -1; io->running = 1
IOStartBegin ==
    /\ io_spc = "new"
    /\ io_running = 0
    /\ io_running' = 1
    /\ io_spc' = "st_create"
    /\ io_join_i' = 0
    /\ UNCHANGED <<ioAcct, ioConf>>
    /\ UNCHANGED <<io_write_queue, io_write_queue_size, io_write_mutex, io_lwip_mutex,
                   io_rpc, io_wpc, io_batch, io_tun, io_ppc, io_joined, io_writes>>

\* hev_tunnel_io_start, one pthread_create of the two loops (readers first, then
\* writers; the model's io_join_i is the count of threads created so far): on
\* failure running = 0 and start returns -1 without joining what it created
IOStartCreate(ok) ==
    /\ io_spc = "st_create"
    /\ IF ~ok
       THEN /\ io_running' = 0
            /\ io_spc' = "start_failed"
            /\ io_join_i' = 0
            /\ UNCHANGED <<io_rpc, io_wpc>>
       ELSE /\ IF io_join_i < io_num_readers
               THEN /\ io_rpc' = [io_rpc EXCEPT ![io_join_i + 1] = "r_alloc"]
                    /\ UNCHANGED io_wpc
               ELSE /\ io_wpc' = [io_wpc EXCEPT
                                     ![IONumReaders + (io_join_i - io_num_readers) + 1] = "w_loop"]
                    /\ UNCHANGED io_rpc
            /\ IF io_join_i + 1 < io_num_readers + io_num_writers
               THEN io_join_i' = io_join_i + 1 /\ UNCHANGED io_spc
               ELSE io_join_i' = 0 /\ io_spc' = "started"
            /\ UNCHANGED io_running
    /\ UNCHANGED <<ioAcct, ioConf>>
    /\ UNCHANGED <<io_write_queue, io_write_queue_size, io_write_mutex, io_lwip_mutex,
                   io_batch, io_tun, io_ppc, io_joined, io_writes>>

\* reader_thread: buffer = malloc (io->mtu + 4); if (!buffer) return NULL
IOReaderAlloc(r, ok) ==
    /\ io_rpc[r] = "r_alloc"
    /\ io_rpc' = [io_rpc EXCEPT ![r] = IF ok THEN "r_loop" ELSE "exited"]
    /\ UNCHANGED <<ioAcct, ioConf>>
    /\ UNCHANGED <<io_running, io_write_queue, io_write_queue_size, io_write_mutex,
                   io_lwip_mutex, io_wpc, io_batch, io_tun, io_ppc, io_spc, io_join_i,
                   io_joined, io_writes>>

IOFaultsNext ==
    \/ IOStartBegin /\ IOFrame
    \/ \E ok \in BOOLEAN : IOStartCreate(ok) /\ IOFrame
    \/ \E r \in IOReaders, ok \in BOOLEAN : IOReaderAlloc(r, ok) /\ IOFrame
    \/ \E r \in IOReaders : IOReaderLoop(r) /\ IOFrame
    \/ \E r \in IOReaders, res \in {"packet", "retry", "error"} : IOReaderRead(r, res) /\ IOFrame
    \/ \E w \in IOWriters : IOWriterLoop(w) /\ IOFrame
    \/ \E w \in IOWriters : IOWriterLoopSize(w) /\ IOFrame
    \/ \E w \in IOWriters : IOWriterLock(w) /\ IOFrame
    \/ \E w \in IOWriters : IOWriterWait(w) /\ IOFrame
    \/ \E w \in IOWriters : IOWriterWake(w) /\ IOFrame
    \/ \E w \in IOWriters : IOWriterTake(w) /\ IOFrame
    \/ \E w \in IOWriters, ok \in BOOLEAN : IOWriterWrite(w, ok) /\ IOFrame
    \/ \E p \in IOProducers : IOStackEnter(p) /\ IOFrame
    \/ \E p \in IOProducers : IOOutput(p) /\ IOFrame
    \/ \E p \in IOProducers : IOStackLeave(p) /\ IOFrame
    \/ IOStopBegin /\ IOFrame
    \/ IOStopJoinReader /\ IOFrame
    \/ IOStopJoinWriter /\ IOFrame
    \/ IODestroy /\ IOFrame

SpecIOFaults == Init /\ [][IOFaultsNext]_vars


\* reader r leaves reader_thread in this step
IOReaderExits(r) == io_rpc[r] \notin {"none", "exited"} /\ io_rpc'[r] = "exited"

\* writer w leaves writer_thread in this step
IOWriterExits(w) == io_wpc[w] \notin {"none", "exited"} /\ io_wpc'[w] = "exited"

\* a thread that stops stops alone: the step moves no other thread of the engine
\* and leaves io->running as it is
IOExitIsolated ==
    /\ \A r \in IOReaders :
          IOReaderExits(r) =>
              /\ \A q \in IOReaders \ {r} : io_rpc'[q] = io_rpc[q]
              /\ io_wpc' = io_wpc
              /\ io_running' = io_running
    /\ \A w \in IOWriters :
          IOWriterExits(w) =>
              /\ \A q \in IOWriters \ {w} : io_wpc'[q] = io_wpc[q]
              /\ io_rpc' = io_rpc
              /\ io_running' = io_running

\* a writer ends only at its loop test, with running clear and an empty queue; the
\* write of a packet, failed or not, leaves the writer in its loop
IOWriterSurvivesWrite ==
    \A w \in IOWriters :
        /\ IOWriterExits(w) =>
              io_wpc[w] = "w_loop_size" /\ io_running = 0 /\ io_write_queue_size = 0
        /\ io_wpc[w] = "w_write" => io_wpc'[w] \in {"w_write", "w_loop"}

\* no step of a reader or of a writer writes io->running
IORunningOnlyByControl == io_running' # io_running => io_spc' # io_spc

\* a reader that ends while running is set ends at the read () call
IOReaderEndsAtRead ==
    \A r \in IOReaders : (IOReaderExits(r) /\ io_running # 0) => io_rpc[r] = "r_read"

\* a reader that ends while running is set ends at the read () call or at the
\* allocation of its buffer
IOReaderEndsAtReadOrAlloc ==
    \A r \in IOReaders :
        (IOReaderExits(r) /\ io_running # 0) => io_rpc[r] \in {"r_read", "r_alloc"}

\* C38: TUN I/O error isolation: a reader ends early only on a read error other than
\* EAGAIN / EWOULDBLOCK / EINTR, and that stops this reader only; a writer never ends
\* because of a write error; no I/O error clears running or stops another thread
C38_IoErrorIsolation ==
    [][IOReaderEndsAtRead /\ IOExitIsolated /\ IOWriterSurvivesWrite
          /\ IORunningOnlyByControl]_vars

\* C38 as the code has it: a reader also ends early, before its loop, when the
\* allocation of its read buffer fails
C38_IoErrorIsolationOrAlloc ==
    [][IOReaderEndsAtReadOrAlloc /\ IOExitIsolated /\ IOWriterSurvivesWrite
          /\ IORunningOnlyByControl]_vars

\* the engine runs with one reader gone and the other still reading, and a writer
\* that has dropped a packet whose write failed is back in its loop
C38_Witness ==
    /\ io_spc = "started"
    /\ io_running = 1
    /\ \E r, q \in IOReaders : io_rpc[r] = "exited" /\ io_rpc[q] = "r_read"
    /\ \E p \in IOPackets :
          /\ io_freed[p] = 1
          /\ p \notin IORange(io_tun)
          /\ p \notin IOPending
    /\ \A w \in IOWriters : io_wpc[w] \notin {"none", "exited"}


\* the threads pthread_create has started
IOCreated ==
    {r \in IOReaders : io_rpc[r] # "none"} \cup {w \in IOWriters : io_wpc[w] # "none"}

\* the threads that are started and have not returned
IOAlive ==
    {r \in IOReaders : io_rpc[r] \notin {"none", "exited"}}
        \cup {w \in IOWriters : io_wpc[w] \notin {"none", "exited"}}

\* C39: hev_tunnel_io_destroy never frees the engine while a reader or writer
\* thread created by hev_tunnel_io_start is alive: every created thread has been
\* joined before the free, also when start failed part-way and when stop was
\* already called once
C39_JoinedBeforeFree ==
    io_spc = "destroyed" => (IOAlive = {} /\ IOCreated \subseteq IORange(io_joined))

====
